---- MODULE Spec2Model ----
(***************************************************************************)
(* devhosts: the transactional apply engine.                               *)
(*                                                                         *)
(* Text is modelled as a sequence of tokens.  The token "\n" is the        *)
(* newline byte; every other token is an indivisible run of bytes that     *)
(* holds no newline.  A line (what strings.Split(s, "\n") yields) is a     *)
(* sequence of tokens; it equals a marker only if it is exactly the        *)
(* one-token sequence of that marker.                                      *)
(***************************************************************************)
EXTENDS Integers, Sequences, FiniteSets, TLC

\* ------------------------------------------------------------------ bounds
MaxLen == 3         \* tokens in an initial resolution file
MaxHosts == 2       \* hosts in a host list
MaxApplies == 2     \* consecutive library calls in SpecApply
MaxCmds == 2        \* consecutive CLI commands in Spec
MaxClock == 2       \* distinct seconds the clock can show
MaxBaseLines == 2   \* lines of a parent configuration in SpecReady

\* ------------------------------------------------------- hostsfile consts
NL == "\n"
newline == <<NL>>
blockStart == <<"# >>> devhosts BEGIN">>
blockEnd == <<"# <<< devhosts END">>
loopbackPrefix == <<"127.0.0.1    ">>
space == <<" ">>
HostsPath == "/etc/hosts"
NoPath == ""

\* ------------------------------------------------------------ Go strings
RECURSIVE SplitAcc(_, _, _)
SplitAcc(s, i, cur) ==
    IF i > Len(s) THEN <<cur>>
    ELSE IF s[i] = NL THEN <<cur>> \o SplitAcc(s, i + 1, <<>>)
    ELSE SplitAcc(s, i + 1, Append(cur, s[i]))

\* strings.Split(s, "\n")
Split(s) == SplitAcc(s, 1, <<>>)

\* strings.Join(parts, sep)
RECURSIVE Join(_, _)
Join(parts, sep) ==
    IF Len(parts) = 0 THEN <<>>
    ELSE IF Len(parts) = 1 THEN parts[1]
    ELSE parts[1] \o sep \o Join(Tail(parts), sep)

\* strings.HasSuffix(s, suffix)
HasSuffix(s, suffix) ==
    /\ Len(s) >= Len(suffix)
    /\ SubSeq(s, Len(s) - Len(suffix) + 1, Len(s)) = suffix

\* Byte order of the host names the model uses ("" sorts first).
NameRank(n) ==
    CASE n = "" -> 0
      [] n = "A" -> 1
      [] n = "a" -> 2
      [] n = "a b" -> 3
      [] n = "a.b" -> 4
      [] n = "b" -> 5
      [] OTHER -> 6

StrLess(x, y) == NameRank(x) < NameRank(y)

RECURSIVE InsertSorted(_, _)
InsertSorted(x, s) ==
    IF Len(s) = 0 THEN <<x>>
    ELSE IF StrLess(x, s[1]) THEN <<x>> \o s
    ELSE <<s[1]>> \o InsertSorted(x, Tail(s))

\* sort.Strings(names)
RECURSIVE SortStrings(_)
SortStrings(s) ==
    IF Len(s) = 0 THEN <<>> ELSE InsertSorted(s[1], SortStrings(Tail(s)))

\* ------------------------------------------------------------- hostsfile
RECURSIVE NonEmptyNames(_)
NonEmptyNames(hosts) ==
    IF Len(hosts) = 0 THEN <<>>
    ELSE IF hosts[1].Name # "" THEN <<hosts[1].Name>> \o NonEmptyNames(Tail(hosts))
    ELSE NonEmptyNames(Tail(hosts))

\* Keeping the first name only.
extractHostnamesFirst(hosts) ==
    LET n == SortStrings(NonEmptyNames(hosts)) IN IF Len(n) = 0 THEN n ELSE <<n[1]>>

extractHostnames(hosts) == SortStrings(NonEmptyNames(hosts))

\* The bytes of a name as tokens: a name holding a blank is more than one.
TokensOf(name) == IF name = "a b" THEN <<"a", " ", "b">> ELSE <<name>>

RECURSIVE NameTokens(_)
NameTokens(names) ==
    IF Len(names) = 0 THEN <<>> ELSE <<TokensOf(names[1])>> \o NameTokens(Tail(names))

\* Writing the markers for an empty list as well.
buildBlockKeepsMarkers(names) ==
    blockStart \o newline
    \o (IF Len(names) = 0 THEN <<>>
        ELSE loopbackPrefix \o Join(NameTokens(names), space) \o newline)
    \o blockEnd \o newline

buildBlock(names) ==
    IF Len(names) = 0 THEN <<>>
    ELSE blockStart \o newline
         \o loopbackPrefix \o Join(NameTokens(names), space) \o newline
         \o blockEnd \o newline

\* What the loop does with an end marker met outside a block.
UnmatchedEndDropped(out, line) == out

\* The end marker kept, but at the head of the output.
UnmatchedEndMovedFirst(out, line) == <<line>> \o out

UnmatchedEnd(out, line) == Append(out, line)

\* Dropping every empty line instead of the trailing ones.
DropEveryEmpty(out) == SelectSeq(out, LAMBDA l : l # <<>>)

RECURSIVE TrimTrailingEmpty(_)
TrimTrailingEmpty(out) ==
    IF Len(out) > 0 /\ out[Len(out)] = <<>>
    THEN TrimTrailingEmpty(SubSeq(out, 1, Len(out) - 1))
    ELSE out

StripFinish(out, removed) ==
    LET trimmed == TrimTrailingEmpty(out)
        result == Join(trimmed, newline)
    IN IF Len(trimmed) = 0 THEN [text |-> <<>>, removed |-> removed]
       ELSE [text |-> IF result # <<>> THEN result \o newline ELSE result,
             removed |-> removed]

RECURSIVE StripLoop(_, _, _, _, _, _)
StripLoop(content, lines, i, inside, removed, out) ==
    IF i > Len(lines) THEN
        IF inside THEN [text |-> content, removed |-> FALSE]
        ELSE StripFinish(out, removed)
    ELSE IF lines[i] = blockStart THEN
        IF inside THEN [text |-> content, removed |-> FALSE]
        ELSE StripLoop(content, lines, i + 1, TRUE, TRUE, out)
    ELSE IF lines[i] = blockEnd THEN
        IF ~inside THEN StripLoop(content, lines, i + 1, inside, removed,
                                  UnmatchedEnd(out, lines[i]))
        ELSE StripLoop(content, lines, i + 1, FALSE, removed, out)
    ELSE IF inside THEN StripLoop(content, lines, i + 1, inside, removed, out)
    ELSE StripLoop(content, lines, i + 1, inside, removed, Append(out, lines[i]))

stripManagedBlock(content) == StripLoop(content, Split(content), 1, FALSE, FALSE, <<>>)

\* Manager.Apply, lines 65-78: the content the file is to hold.
ApplyFinal(original, hosts) ==
    LET withoutBlock == stripManagedBlock(original).text
        block == buildBlock(extractHostnames(hosts))
        f1 == IF block # <<>>
              THEN (IF withoutBlock # <<>> /\ ~HasSuffix(withoutBlock, newline)
                    THEN withoutBlock \o newline ELSE withoutBlock) \o block
              ELSE withoutBlock
    IN IF f1 # <<>> /\ ~HasSuffix(f1, newline) THEN f1 \o newline ELSE f1

\* ------------------------------------------------------------ filesystem
\* A path of the filesystem: whether a file is there, and its bytes.
Absent == [exists |-> FALSE, data |-> <<>>]
FileOf(bytes) == [exists |-> TRUE, data |-> bytes]

\* A filesystem call's injected failure: the call it hits (or "none") and
\* whether the cause is os.ErrPermission or something else.
NoFault == [at |-> "none", kind |-> "io"]
Faults(points, kinds) == {NoFault} \cup [at : points, kind : kinds]

\* An error is the set of failures its message and wrap chain carry; nil is
\* the empty set.  A failure records the step (op, path), its cause (kind)
\* and whether an *ErrNeedsSudo is in the wrap chain (sudo).
Nil == {}

\* A filesystem error returned as it came, without WrapPermission.
Unwrapped(op, path, cause) ==
    [op |-> op, path |-> path, kind |-> cause, names |-> <<>>, sudo |-> FALSE,
     text |-> <<>>]

\* Returning every error unchanged.
WrapPermissionNever(op, path, cause) == Unwrapped(op, path, cause)

\* system.WrapPermission on a non-nil error: an error that is
\* os.ErrPermission is wrapped in ErrNeedsSudo, any other is returned as is.
WrapPermission(op, path, cause) ==
    IF cause = "permission"
    THEN [op |-> op, path |-> path, kind |-> cause, names |-> <<>>, sudo |-> TRUE,
          text |-> <<>>]
    ELSE Unwrapped(op, path, cause)

\* system.IsErrNeedsSudo: errors.As finds an *ErrNeedsSudo in the chain.
IsErrNeedsSudo(err) == \E e \in err : e.sudo

\* err.Error(): the text of the error, which carries no wrap chain.
Stringified(err) == {[e EXCEPT !.sudo = FALSE] : e \in err}

Failure(op, path, f) == {WrapPermission(op, path, f.kind)}

\* A timestamp names a backup path <path>.devhosts.bak-<t>; 0 stands for
\* the empty BackupPath.
EmptyApplyResult == [Changed |-> FALSE, BackupPath |-> 0, Path |-> NoPath]

ApplyFail(op, path, f, ops, hf, bk) ==
    [file |-> hf, backups |-> bk, res |-> EmptyApplyResult,
     err |-> Failure(op, path, f), ops |-> ops]

\* Rename failed: the temp file is removed and, when a backup was taken,
\* the target is overwritten with the bytes read at the start.
RenameFailed(hf, original, backupPath) ==
    IF backupPath # 0
    THEN [file |-> FileOf(original), ops |-> <<<<"write", "hosts">>>>]
    ELSE [file |-> hf, ops |-> <<>>]

\* Writing an empty backup file.
WriteBackupEmpty(bk, t, original) == [bk EXCEPT ![t] = FileOf(<<>>)]

\* Manager.Apply, lines 86-87: the backup file named by the clock holds the
\* bytes read.
WriteBackup(bk, t, original) == [bk EXCEPT ![t] = FileOf(original)]

\* Manager.Apply on the resolution file hf with backups bk, the clock
\* showing t, and filesystem fault f.
HostsApply(hf, bk, hosts, f, t) ==
    LET original == IF hf.exists THEN hf.data ELSE <<>>
        final == ApplyFinal(original, hosts)
        backupPath == IF hf.exists THEN t ELSE 0
        bk1 == IF hf.exists THEN WriteBackup(bk, t, original) ELSE bk
        ops1 == IF hf.exists THEN <<<<"write", "hosts.bak">>>> ELSE <<>>
        ops2 == ops1 \o <<<<"mkdir", "hosts.dir">>>>
        ops3 == ops2 \o <<<<"write", "hosts.tmp">>>>
        rf == RenameFailed(hf, original, backupPath)
    IN IF f.at = "read" THEN ApplyFail("read", "hosts", f, <<>>, hf, bk)
       ELSE IF original = final THEN
           [file |-> hf, backups |-> bk,
            res |-> [Changed |-> FALSE, BackupPath |-> 0, Path |-> NoPath],
            err |-> Nil, ops |-> <<>>]
       ELSE IF hf.exists /\ f.at = "backup" THEN
           ApplyFail("backup", "hosts.bak", f, <<>>, hf, bk)
       ELSE IF f.at = "mkdir" THEN ApplyFail("mkdir", "hosts.dir", f, ops1, hf, bk1)
       ELSE IF f.at = "write" THEN
           ApplyFail("write", "hosts.tmp", f,
                     ops2 \o <<<<"remove", "hosts.tmp">>>>, hf, bk1)
       ELSE IF f.at = "replace" THEN
           ApplyFail("replace", "hosts", f,
                     ops3 \o <<<<"remove", "hosts.tmp">>>> \o rf.ops, rf.file, bk1)
       ELSE [file |-> FileOf(final), backups |-> bk1,
             res |-> [Changed |-> TRUE, BackupPath |-> backupPath, Path |-> HostsPath],
             err |-> Nil, ops |-> ops3 \o <<<<"rename", "hosts">>>>]

ApplyFaultPoints == {"read", "backup", "mkdir", "write", "replace"}

\* Manager.Restore.
HostsRestore(res, hf, bk, f, t) ==
    IF res.Path = NoPath THEN [file |-> hf, backups |-> bk, err |-> Nil, ops |-> <<>>]
    ELSE IF res.BackupPath = 0 THEN
        LET r == HostsApply(hf, bk, <<>>, f, t)
        IN [file |-> r.file, backups |-> r.backups, err |-> r.err, ops |-> r.ops]
    ELSE IF f.at = "read" \/ ~bk[res.BackupPath].exists THEN
        [file |-> hf, backups |-> bk, err |-> Failure("read", "hosts.bak", f),
         ops |-> <<>>]
    ELSE IF f.at = "restore" THEN
        [file |-> hf, backups |-> bk, err |-> Failure("restore", "hosts", f),
         ops |-> <<>>]
    ELSE [file |-> FileOf(bk[res.BackupPath].data), backups |-> bk, err |-> Nil,
          ops |-> <<<<"write", "hosts">>>>]

RestoreFaultPoints == ApplyFaultPoints \cup {"restore"}

\* ----------------------------------------------------------------- caddy
IncludePath == "/home/u/.devhosts.caddy"
BasePath == "/home/u/.Caddyfile"

\* altHomeToken with the home directory /home/u.
altHomeToken(path) == IF path = IncludePath THEN "~/.devhosts.caddy" ELSE ""

\* Rendering the TLS directive without the blank line after it.
HostBlockNoBlank(h) ==
    Join(<<<<h.Name, " {">>>>
         \o (IF h.TLS THEN <<<<"  tls internal">>>> ELSE <<>>)
         \o <<<<"  reverse_proxy ", h.Upstream>>, <<"}">>>>, newline)

HostBlock(h) ==
    Join(<<<<h.Name, " {">>>>
         \o (IF h.TLS THEN <<<<"  tls internal">>, <<>>>> ELSE <<>>)
         \o <<<<"  reverse_proxy ", h.Upstream>>, <<"}">>>>, newline)

RECURSIVE HostBlocks(_)
HostBlocks(hosts) ==
    IF Len(hosts) = 0 THEN <<>> ELSE <<HostBlock(hosts[1])>> \o HostBlocks(Tail(hosts))

GenerateInclude(hosts) ==
    IF Len(hosts) = 0 THEN <<>>
    ELSE Join(HostBlocks(hosts), newline \o newline) \o newline

\* cmdutil.Result with nothing on either stream.
NoOutput == [Stdout |-> <<>>, Stderr |-> <<>>]

EmptyUpdateResult ==
    [Changed |-> FALSE, Path |-> NoPath, Previous |-> <<>>, Existed |-> FALSE]

UpdateFail(op, path, f, ops, inc) ==
    [file |-> inc, res |-> EmptyUpdateResult, err |-> Failure(op, path, f), ops |-> ops]

\* Manager.UpdateInclude on the fragment file inc.
UpdateInclude(inc, content, f) ==
    LET previous == IF inc.exists THEN inc.data ELSE <<>>
        existed == inc.exists
        ops1 == <<<<"mkdir", "include.dir">>>>
        ops2 == ops1 \o <<<<"write", "include.tmp">>>>
    IN IF f.at = "read" THEN UpdateFail("read", "include", f, <<>>, inc)
       ELSE IF existed /\ previous = content THEN
           [file |-> inc,
            res |-> [Changed |-> FALSE, Path |-> IncludePath, Previous |-> previous,
                     Existed |-> TRUE],
            err |-> Nil, ops |-> <<>>]
       ELSE IF f.at = "mkdir" THEN UpdateFail("mkdir", "include.dir", f, <<>>, inc)
       ELSE IF f.at = "write" THEN
           UpdateFail("write", "include.tmp", f,
                      ops1 \o <<<<"remove", "include.tmp">>>>, inc)
       ELSE IF f.at = "replace" THEN
           UpdateFail("replace", "include", f,
                      ops2 \o <<<<"remove", "include.tmp">>>>, inc)
       ELSE [file |-> FileOf(content),
             res |-> [Changed |-> TRUE, Path |-> IncludePath, Previous |-> previous,
                      Existed |-> existed],
             err |-> Nil, ops |-> ops2 \o <<<<"rename", "include">>>>]

UpdateFaultPoints == {"read", "mkdir", "write", "replace"}

\* Writing the previous bytes back even when there was no file before.
RestoreIncludeAlwaysWrites(res, inc, f) ==
    IF res.Path = NoPath THEN [file |-> inc, err |-> Nil, ops |-> <<>>]
    ELSE [file |-> FileOf(res.Previous), err |-> Nil, ops |-> <<<<"write", "include">>>>]

\* Manager.RestoreInclude.
RestoreInclude(res, inc, f) ==
    IF res.Path = NoPath THEN [file |-> inc, err |-> Nil, ops |-> <<>>]
    ELSE IF ~res.Existed THEN
        IF f.at = "remove" THEN
            [file |-> inc, err |-> Failure("remove", "include", f), ops |-> <<>>]
        ELSE [file |-> Absent, err |-> Nil, ops |-> <<<<"remove", "include">>>>]
    ELSE IF f.at = "restore" THEN
        [file |-> inc, err |-> Failure("restore", "include", f), ops |-> <<>>]
    ELSE [file |-> FileOf(res.Previous), err |-> Nil, ops |-> <<<<"write", "include">>>>]

RestoreIncludeFaultPoints == {"remove", "restore"}

\* strings.Contains(s, pat)
Contains(s, pat) ==
    \E i \in 1..(Len(s) - Len(pat) + 1) : SubSeq(s, i, i + Len(pat) - 1) = pat

\* strings.HasPrefix(s, prefix)
HasPrefix(s, prefix) == Len(s) >= Len(prefix) /\ SubSeq(s, 1, Len(prefix)) = prefix

IsSpace(tok) == tok \in {" ", "\t", NL}

RECURSIVE TrimLeft(_)
TrimLeft(s) == IF Len(s) > 0 /\ IsSpace(s[1]) THEN TrimLeft(Tail(s)) ELSE s

RECURSIVE TrimRight(_)
TrimRight(s) ==
    IF Len(s) > 0 /\ IsSpace(s[Len(s)]) THEN TrimRight(SubSeq(s, 1, Len(s) - 1)) ELSE s

\* strings.TrimSpace(s)
TrimSpace(s) == TrimRight(TrimLeft(s))

\* strings.Fields(s), for a line
RECURSIVE FieldsAcc(_, _, _)
FieldsAcc(s, i, cur) ==
    IF i > Len(s) THEN (IF cur = <<>> THEN <<>> ELSE <<cur>>)
    ELSE IF IsSpace(s[i]) THEN
        (IF cur = <<>> THEN <<>> ELSE <<cur>>) \o FieldsAcc(s, i + 1, <<>>)
    ELSE FieldsAcc(s, i + 1, Append(cur, s[i]))

Fields(s) == FieldsAcc(s, 1, <<>>)

ImportTokens(includePath) ==
    {includePath} \cup (IF altHomeToken(includePath) # "" THEN {altHomeToken(includePath)} ELSE {})

\* ensureImportPresent: TRUE when it returns nil.
ensureImportPresent(content, includePath) ==
    \E token \in ImportTokens(includePath) :
        \/ Contains(content, <<"import", " ", "\"", token, "\"">>)
        \/ Contains(content, <<"import", " ", token>>)

\* Finding no import written with the ~ form.
usesTildeImportNever(content, includePath) == FALSE

usesTildeImport(content, includePath) ==
    LET alt == altHomeToken(includePath)
        lines == Split(content)
    IN /\ alt # ""
       /\ \E k \in 1..Len(lines) :
              LET trimmed == TrimSpace(lines[k])
                  fields == Fields(trimmed)
              IN /\ HasPrefix(trimmed, <<"import">>)
                 /\ Len(fields) >= 2
                 /\ fields[2] \in {<<alt>>, <<"\"", alt, "\"">>}

HostNameSet(hosts) == {hosts[i].Name : i \in 1..Len(hosts)} \ {""}

\* Listing the names in descending order.
RECURSIVE SortedSeqOfDescending(_)
SortedSeqOfDescending(S) ==
    IF S = {} THEN <<>>
    ELSE LET m == CHOOSE x \in S : \A y \in S : ~StrLess(x, y)
         IN <<m>> \o SortedSeqOfDescending(S \ {m})

RECURSIVE SortedSeqOf(_)
SortedSeqOf(S) ==
    IF S = {} THEN <<>>
    ELSE LET m == CHOOSE x \in S : \A y \in S : ~StrLess(y, x)
         IN <<m>> \o SortedSeqOf(S \ {m})

\* detectConflicts followed by unique: the conflicting names, sorted, once each.
detectConflicts(content, hosts) ==
    IF Len(hosts) = 0 THEN <<>>
    ELSE LET lines == Split(content)
             hit(name) ==
                 \E k \in 1..Len(lines) :
                     LET trimmed == TrimSpace(lines[k])
                     IN \/ trimmed = <<name, "{">>
                        \/ HasPrefix(trimmed, <<name, " ">>)
                        \/ HasPrefix(trimmed, <<name, "{">>)
         IN SortedSeqOf({n \in HostNameSet(hosts) : hit(n)})

\* What applyState does once the readiness check has returned err.
EnsureThenAlwaysUpdate(err) == "update"

EnsureThen(err) == IF err # Nil THEN "done" ELSE "update"

\* Manager.EnsureBaseReady: the error it returns (Nil for nil).
EnsureBaseReady(baseFile, includePath, hosts, f) ==
    IF f.at = "read" \/ ~baseFile.exists THEN Failure("read", "base", f)
    ELSE IF ~ensureImportPresent(baseFile.data, includePath) THEN
        {[op |-> "import-missing", path |-> "base", kind |-> "config", names |-> <<>>,
          sudo |-> FALSE, text |-> <<>>]}
    ELSE IF usesTildeImport(baseFile.data, includePath) THEN
        {[op |-> "import-tilde", path |-> "base", kind |-> "config", names |-> <<>>,
          sudo |-> FALSE, text |-> <<>>]}
    ELSE IF detectConflicts(baseFile.data, hosts) # <<>> THEN
        {[op |-> "conflict", path |-> "base", kind |-> "config",
          names |-> detectConflicts(baseFile.data, hosts), sudo |-> FALSE, text |-> <<>>]}
    ELSE Nil

\* ----------------------------------------------------------------- state
\* strings.ToLower(strings.TrimSpace(raw)) on the names the model uses.
NormalizeHostName(raw) ==
    CASE raw = "A" -> "a"
      [] raw = " a" -> "a"
      [] raw = "B" -> "b"
      [] OTHER -> raw

DottedNames == {"a.b"}
\* The names of the model that match hostPattern.
PatternNames == {"a", "b"}
LocalUpstreams == {"http://localhost:8000", "http://127.0.0.1:9000"}

\* validateHost: TRUE when it returns nil.
validateHost(h) ==
    /\ h.Name # ""
    /\ h.Name \notin DottedNames
    /\ h.Name \in PatternNames
    /\ h.Upstream \in LocalUpstreams

RECURSIVE InsertHost(_, _)
InsertHost(h, s) ==
    IF Len(s) = 0 THEN <<h>>
    ELSE IF StrLess(h.Name, s[1].Name) THEN <<h>> \o s
    ELSE <<s[1]>> \o InsertHost(h, Tail(s))

SortHostsKeepsOrder(s) == s

\* sort.Slice(s.Hosts, by Name)
RECURSIVE SortHosts(_)
SortHosts(s) == IF Len(s) = 0 THEN <<>> ELSE InsertHost(s[1], SortHosts(Tail(s)))

NormalizeAll(hosts) ==
    [i \in 1..Len(hosts) |-> [hosts[i] EXCEPT !.Name = NormalizeHostName(hosts[i].Name)]]

ValidationError ==
    {[op |-> "validate", path |-> "snapshot", kind |-> "config", names |-> <<>>,
      sudo |-> FALSE, text |-> <<>>]}

\* ValidateSnapshot (version and paths are set by Load): the error, and the
\* caller's host slice as the call leaves it on success.
ValidateSnapshot(hosts) ==
    LET n == NormalizeAll(hosts)
        ok == /\ \A i \in 1..Len(n) : validateHost(n[i])
              /\ \A i, j \in 1..Len(n) : i # j => n[i].Name # n[j].Name
    IN IF ok THEN [err |-> Nil, hosts |-> SortHosts(n)]
       ELSE [err |-> ValidationError, hosts |-> hosts]
\* --------------------------------------------------------------- variables
VARIABLES
    hostsFile,    \* the resolution file (HostsPath)
    backups,      \* timestamp -> the backup file <HostsPath>.devhosts.bak-<t>
    now,          \* the second the clock showed when last read
    includeFile,  \* the fragment file (snapshot.IncludeCaddyfile)
    doc,          \* the persisted desired-state document: its host list
    base,         \* the parent configuration (snapshot.BaseCaddyfile)
    proxyCfg,     \* the fragment bytes the proxy last accepted
    pc,           \* position of the running command
    cmd,          \* the running (or last) command or library call
    desired,      \* the host list in hand
    includeRes,   \* caddy.UpdateResult of the running apply
    hostsRes,     \* hostsfile.ApplyResult of the running apply
    retErr,       \* the error the command or call returned
    rbErrs,       \* failures of the compensating restores of the command
    fwdErr,       \* the error of the forward step that failed, if any
    oplog,        \* filesystem mutations and calls of the command, in order
    pre,          \* the files as they were when the command or call began
    lastOk,       \* the host list of the apply that just succeeded, if any
    ncmds,        \* commands or calls begun so far
    hosts0,       \* the resolution file at the start of the behaviour
    tmp,          \* the sibling temporary file <target>.devhosts.tmp-<n> being written
    reloadOut,    \* cmdutil.Result of the last reload: what the proxy printed
    args,         \* the arguments of the running add or remove command
    loaded        \* config.Loaded and the error of the last Loader.Load

vars == <<hostsFile, backups, now, includeFile, doc, base, proxyCfg, pc, cmd,
          desired, includeRes, hostsRes, retErr, rbErrs, fwdErr, oplog, pre,
          lastOk, ncmds, hosts0, tmp, reloadOut, args, loaded>>

\* ------------------------------------------------------------ input sets
HostsAlphabet == {NL, blockStart[1], blockEnd[1], "x"}
Texts(n) == UNION {[1..k -> HostsAlphabet] : k \in 0..n}
\* Longer files: an end marker with no begin marker between two other lines,
\* after a region, and before one.
UnmatchedEndTexts ==
    {<<"x", NL>> \o blockEnd \o <<NL, "x", NL>>,
     blockStart \o <<NL, "x", NL>> \o blockEnd \o <<NL>> \o blockEnd \o <<NL, "x", NL>>,
     <<"x", NL>> \o blockEnd \o <<NL>> \o blockStart \o <<NL, "x", NL>> \o blockEnd
         \o <<NL, "x", NL>>}
HostsFiles == {Absent} \cup {FileOf(s) : s \in Texts(MaxLen) \cup UnmatchedEndTexts}

MkHost(n) == [Name |-> n, Upstream |-> "http://localhost:8000", TLS |-> TRUE]
LibNames == {"a", "b"}
Distinct(s) == \A i, j \in 1..Len(s) : i # j => s[i] # s[j]
NameLists(names, n) == {s \in UNION {[1..k -> names] : k \in 0..n} : Distinct(s)}
HostsOf(s) == [i \in 1..Len(s) |-> MkHost(s[i])]
\* Every order of distinct names, one list holding a host with no name and
\* one holding a name with a blank in it.
LibHostLists ==
    {HostsOf(s) : s \in NameLists(LibNames, MaxHosts)}
        \cup {HostsOf(<<"b", "", "a">>), HostsOf(<<"a b">>)}

NoBackups == [t \in 1..MaxClock |-> Absent]
Snapshot == [hosts |-> hostsFile, include |-> includeFile, doc |-> doc, backups |-> backups]
NoLast == [ok |-> FALSE, hosts |-> <<>>]

\* state.Snapshot
MkSnapshot(version, hosts, basePath, includePath) ==
    [Version |-> version, Hosts |-> hosts, BaseCaddyfile |-> basePath,
     IncludeCaddyfile |-> includePath]
NoSnapshot == MkSnapshot(0, <<>>, "", "")
NoLoaded == [Snapshot |-> NoSnapshot, err |-> Nil]

\* ------------------------------------------- SpecApply: the hosts library
\* Manager.Apply and Manager.Restore called directly on a resolution file
\* with any content.
InitApply ==
    /\ hostsFile \in HostsFiles
    /\ hosts0 = hostsFile
    /\ tmp = Absent
    /\ reloadOut = NoOutput
    /\ args = <<>>
    /\ loaded = NoLoaded
    /\ backups = NoBackups
    /\ now = 1
    /\ includeFile = Absent
    /\ doc = <<>>
    /\ base = <<>>
    /\ proxyCfg = <<>>
    /\ pc = "lib"
    /\ cmd = "none"
    /\ desired = <<>>
    /\ includeRes = EmptyUpdateResult
    /\ hostsRes = EmptyApplyResult
    /\ retErr = Nil
    /\ rbErrs = Nil
    /\ fwdErr = Nil
    /\ oplog = <<>>
    /\ pre = Snapshot
    /\ lastOk = NoLast
    /\ ncmds = 0

LibApply(hosts, f, t) ==
    /\ pc = "lib"
    /\ ncmds < MaxApplies
    /\ LET r == HostsApply(hostsFile, backups, hosts, f, t)
       IN /\ hostsFile' = r.file
          /\ backups' = r.backups
          /\ hostsRes' = r.res
          /\ retErr' = r.err
          /\ oplog' = r.ops
    /\ now' = t
    /\ cmd' = "Apply"
    /\ desired' = hosts
    /\ pre' = Snapshot
    /\ ncmds' = ncmds + 1
    /\ UNCHANGED <<includeFile, doc, base, proxyCfg, pc, includeRes, rbErrs, fwdErr, lastOk,
                   hosts0, tmp, reloadOut, args, loaded>>

LibRestore(f, t) ==
    /\ pc = "lib"
    /\ cmd = "Apply"
    /\ retErr = Nil
    /\ LET r == HostsRestore(hostsRes, hostsFile, backups, f, t)
       IN /\ hostsFile' = r.file
          /\ backups' = r.backups
          /\ retErr' = r.err
          /\ oplog' = r.ops
    /\ now' = t
    /\ cmd' = "Restore"
    /\ UNCHANGED <<includeFile, doc, base, proxyCfg, pc, desired, includeRes, hostsRes,
                   rbErrs, fwdErr, pre, lastOk, ncmds, hosts0, tmp, reloadOut, args, loaded>>

\* The filesystem of SpecApply does not fail and its clock stands still: the
\* specification exercises what Apply computes from the file and the list.
NextApply ==
    \/ \E hosts \in LibHostLists : LibApply(hosts, NoFault, now)
    \/ LibRestore(NoFault, now)

SpecApply == InitApply /\ [][NextApply]_vars

\* ------------------------------------------- regions, stated declaratively
LinesOf(file) == Split(file.data)

\* Line i lies in a region: a begin marker at or before it has no end marker
\* between itself and line i.  (A region runs from a begin marker through
\* the next end marker, or to the end of the file if there is none.)
Managed(lines, i) ==
    \E s \in 1..i : /\ lines[s] = blockStart
                    /\ \A j \in s..(i - 1) : lines[j] # blockEnd

\* A begin marker inside an open region, or a region the file never closes.
Corrupted(lines) ==
    \E s \in 1..Len(lines) :
        /\ lines[s] = blockStart
        /\ \/ \A j \in (s + 1)..Len(lines) : lines[j] # blockEnd
           \/ \E s2 \in (s + 1)..Len(lines) :
                  /\ lines[s2] = blockStart
                  /\ \A j \in (s + 1)..(s2 - 1) : lines[j] # blockEnd

RECURSIVE UnmanagedFrom(_, _)
UnmanagedFrom(lines, i) ==
    IF i > Len(lines) THEN <<>>
    ELSE IF Managed(lines, i) THEN UnmanagedFrom(lines, i + 1)
    ELSE <<lines[i]>> \o UnmanagedFrom(lines, i + 1)

\* The lines outside every region, in order.
Unmanaged(lines) == UnmanagedFrom(lines, 1)

RECURSIVE DropTrailingBlank(_)
DropTrailingBlank(lines) ==
    IF Len(lines) > 0 /\ lines[Len(lines)] = <<>>
    THEN DropTrailingBlank(SubSeq(lines, 1, Len(lines) - 1))
    ELSE lines

HasUnmatchedEnd(lines) ==
    \E i \in 1..Len(lines) : lines[i] = blockEnd /\ ~Managed(lines, i)

\* The unmanaged lines up to and including the last unmatched end marker.
RECURSIVE ThroughLastEnd(_)
ThroughLastEnd(u) ==
    IF Len(u) = 0 \/ u[Len(u)] = blockEnd THEN u
    ELSE ThroughLastEnd(SubSeq(u, 1, Len(u) - 1))

Count(lines, marker) == Cardinality({i \in 1..Len(lines) : lines[i] = marker})

IsPrefix(p, s) == Len(p) <= Len(s) /\ SubSeq(s, 1, Len(p)) = p

\* A library Apply has just returned without error.
Applied == pc = "lib" /\ cmd = "Apply" /\ retErr = Nil

\* ------------------------------------------------------------------- C7
\* C7 (as claimed): when the resolution file holds a nested begin marker or
\* an unterminated block, Manager.Apply leaves it byte-for-byte unchanged,
\* whatever the host list.
C7_CorruptedFileUntouched ==
    (Applied /\ pre.hosts.exists /\ Corrupted(LinesOf(pre.hosts)))
        => hostsFile = pre.hosts

\* ------------------------------------------------------------------- C8
\* C8 (as claimed): a resolution file holding an end marker with no matching
\* begin marker is left completely unmodified by an apply.
C8_UnmatchedEndFileUnmodified ==
    (Applied /\ pre.hosts.exists /\ HasUnmatchedEnd(LinesOf(pre.hosts)))
        => hostsFile = pre.hosts

\* C8 (amended): an apply keeps every unmatched end marker in place: the
\* unmanaged lines up to and including the last unmatched end marker are the
\* same before and after, for every host list; and the file is left
\* unmodified when the list names no host and the file holds no begin marker
\* and ends in exactly one newline after its last non-blank line.
C8_UnmatchedEndKept ==
    (Applied /\ pre.hosts.exists /\ HasUnmatchedEnd(LinesOf(pre.hosts))) =>
        /\ hostsFile.exists
        /\ ThroughLastEnd(Unmanaged(LinesOf(hostsFile)))
               = ThroughLastEnd(Unmanaged(LinesOf(pre.hosts)))
        /\ ( /\ extractHostnames(desired) = <<>>
             /\ Count(LinesOf(pre.hosts), blockStart) = 0
             /\ HasSuffix(pre.hosts.data, newline)
             /\ ~HasSuffix(pre.hosts.data, newline \o newline) )
           => hostsFile = pre.hosts

C8_Witness ==
    /\ Applied
    /\ pre.hosts.exists
    /\ HasUnmatchedEnd(LinesOf(pre.hosts))
    /\ extractHostnames(desired) # <<>>
    /\ hostsFile # pre.hosts
    /\ hostsRes.Changed

ExpectedRegion(hosts) ==
    LET names == extractHostnames(hosts)
    IN <<blockStart, loopbackPrefix \o Join(NameTokens(names), space), blockEnd, <<>>>>

EndsWith(lines, tailLines) ==
    /\ Len(lines) >= Len(tailLines)
    /\ SubSeq(lines, Len(lines) - Len(tailLines) + 1, Len(lines)) = tailLines

\* C10 (as claimed): after any sequence of successful applies from any file
\* content, the tool has put at most one begin marker and at most one end
\* marker in the file, and a non-empty host list leaves its region, one
\* mapping line of the sorted names, as the last thing in the file.
C10_SingleRegion ==
    Applied =>
        /\ Count(LinesOf(hostsFile), blockStart) - Count(LinesOf(hosts0), blockStart) <= 1
        /\ Count(LinesOf(hostsFile), blockEnd) - Count(LinesOf(hosts0), blockEnd) <= 1
        /\ extractHostnames(desired) # <<>> =>
               EndsWith(LinesOf(hostsFile), ExpectedRegion(desired))

\* ------------------------------------------------------- Spec: the CLI
\* One command at a time: Run loads the document, the handler prepares the
\* desired host list, applyState runs step by step, add and remove save.
Kinds == {"io", "permission"}

HostA == [Name |-> "a", Upstream |-> "http://localhost:8000", TLS |-> TRUE]
HostB == [Name |-> "b", Upstream |-> "http://127.0.0.1:9000", TLS |-> FALSE]
HostDotted == [Name |-> "a.b", Upstream |-> "http://localhost:8000", TLS |-> TRUE]

\* Documents a user can have on disk (Load validates and sorts them); the
\* last two hold the name a twice after normalization and an upstream that is
\* not local.
Docs == {<<>>, <<HostA>>, <<HostB, HostA>>, <<HostDotted>>,
         <<HostA, [HostB EXCEPT !.Name = "A"]>>,
         <<[HostB EXCEPT !.Upstream = "https://example.com:8000"]>>}

ImportLine == <<"import", " ", IncludePath, NL>>
BaseGood == FileOf(ImportLine)
BaseNoImport == FileOf(<<"#", " ", "empty">>)
BaseTilde == FileOf(<<"import", " ", altHomeToken(IncludePath), NL>>)
BaseDefinesA == FileOf(ImportLine \o <<"a", " ", "{", NL, "}", NL>>)
Bases == {BaseGood, BaseNoImport, BaseTilde, BaseDefinesA, Absent}

\* Resolution files of each kind: none, empty, plain, holding a well-formed
\* region, holding an unterminated block.
CliHostsFiles ==
    {Absent, FileOf(<<>>), FileOf(<<"x", NL>>),
     FileOf(<<"x", NL>> \o buildBlock(<<"a">>)), FileOf(blockStart \o newline)}

IncludeFiles == {Absent, FileOf(<<"stale", NL>>)}

\* The argument lists of an add command; an argument is a sequence of
\* tokens, "=" and ":" being the separators parseHostSpec looks for.
AddArgs ==
    {<< <<"B", ":", "8000">> >>,
     << <<"--no-tls">>, <<"b", ":", "8000">>, <<"a", "=", "127.0.0.1:9000">> >>,
     << <<"--tls">>, <<"b", "=", "http://127.0.0.1:9000">> >>,
     << <<"a.b", ":", "8000">> >>,
     << <<"b", ":", "8000">>, <<"--no-tls">> >>,
     << <<"--tls">>, <<"--no-tls">>, <<"a", ":", "8000">> >>,
     << <<"--tls">> >>}
\* The argument lists of a remove command.
RemoveArgs == {<< <<"A">> >>, << <<"b">>, <<"c">> >>, <<>>}

Init ==
    /\ hostsFile \in CliHostsFiles
    /\ hosts0 = hostsFile
    /\ tmp = Absent
    /\ reloadOut = NoOutput
    /\ args = <<>>
    /\ loaded = NoLoaded
    /\ backups = NoBackups
    /\ now = 1
    /\ includeFile \in IncludeFiles
    /\ doc \in Docs
    /\ base \in Bases
    /\ proxyCfg = <<>>
    /\ pc = "idle"
    /\ cmd = "none"
    /\ desired = <<>>
    /\ includeRes = EmptyUpdateResult
    /\ hostsRes = EmptyApplyResult
    /\ retErr = Nil
    /\ rbErrs = Nil
    /\ fwdErr = Nil
    /\ oplog = <<>>
    /\ pre = Snapshot
    /\ lastOk = NoLast
    /\ ncmds = 0

Call(name) == <<"call", name>>
Err(name) == <<"err", name>>

FindHostIndex(hosts, name) ==
    IF \E i \in 1..Len(hosts) : hosts[i].Name = name
    THEN CHOOSE i \in 1..Len(hosts) :
             hosts[i].Name = name /\ \A j \in 1..(i - 1) : hosts[j].Name # name
    ELSE 0

UsageError(op) ==
    {[op |-> op, path |-> "args", kind |-> "usage", names |-> <<>>, sudo |-> FALSE,
      text |-> <<>>]}

\* flag.FlagSet.Parse, called at line 163: the flags before the first
\* argument that is not a flag, and the arguments from there on.
RECURSIVE ParseFlags(_, _)
ParseFlags(arguments, seen) ==
    IF Len(arguments) > 0 /\ arguments[1] \in {<<"--tls">>, <<"--no-tls">>}
    THEN ParseFlags(Tail(arguments), seen \cup {arguments[1][1]})
    ELSE [flags |-> seen, rest |-> arguments]

\* An argument part of one token is that string; an empty part is "".
Word(tokens) == IF Len(tokens) = 1 THEN tokens[1] ELSE ""

\* parseHostSpec (the specs of the model have no white space around them).
\* WithScheme is "http://" + upstream when upstream holds no "://" (line
\* 364) and LocalhostPort is "http://localhost:" + port (line 377), on the
\* strings of the model.
parseHostSpec(spec) ==
    LET WithScheme(upstream) ==
            CASE upstream = "127.0.0.1:9000" -> "http://127.0.0.1:9000"
              [] OTHER -> upstream
        LocalhostPort(port) ==
            CASE port = "8000" -> "http://localhost:8000"
              [] OTHER -> port
        bad == [err |-> UsageError("parseHostSpec"), name |-> "", upstream |-> ""]
        eqs == {i \in 1..Len(spec) : spec[i] = "="}
        colons == {i \in 1..Len(spec) : spec[i] = ":"}
    IN IF Len(spec) = 0 THEN bad
       ELSE IF eqs # {} THEN
            LET i == CHOOSE k \in eqs : \A m \in eqs : k <= m
                name == NormalizeHostName(Word(SubSeq(spec, 1, i - 1)))
                upstream == Word(SubSeq(spec, i + 1, Len(spec)))
            IN IF name = "" \/ upstream = "" THEN bad
               ELSE [err |-> Nil, name |-> name, upstream |-> WithScheme(upstream)]
       ELSE IF colons = {} THEN bad
       ELSE LET i == CHOOSE k \in colons : \A m \in colons : m <= k
                name == NormalizeHostName(Word(SubSeq(spec, 1, i - 1)))
            IN IF i = 1 \/ i = Len(spec) \/ name = "" THEN bad
               ELSE [err |-> Nil, name |-> name,
                     upstream |-> LocalhostPort(Word(SubSeq(spec, i + 1, Len(spec))))]

\* handleAdd, lines 192-209, for one spec.
Upsert(hosts, spec, flag) ==
    LET idx == FindHostIndex(hosts, spec.name)
        tls == IF flag = "tls" THEN TRUE
               ELSE IF flag = "no-tls" THEN FALSE
               ELSE IF idx # 0 THEN hosts[idx].TLS
               ELSE TRUE
        host == [Name |-> spec.name, Upstream |-> spec.upstream, TLS |-> tls]
    IN IF idx # 0 THEN [hosts EXCEPT ![idx] = host] ELSE Append(hosts, host)

\* handleAdd, lines 191-209: the loop over the host specs.
RECURSIVE AddHosts(_, _, _)
AddHosts(hosts, specs, flag) ==
    IF Len(specs) = 0 THEN [err |-> Nil, hosts |-> hosts]
    ELSE LET p == parseHostSpec(specs[1])
         IN IF p.err # Nil THEN [err |-> p.err, hosts |-> hosts]
            ELSE AddHosts(Upsert(hosts, p, flag), Tail(specs), flag)

\* handleAdd, lines 163-209: the error it returns before validation, or the
\* edited clone of the loaded host list.
handleAdd(hosts, arguments) ==
    LET parsed == ParseFlags(arguments, {})
        flag == IF "--tls" \in parsed.flags THEN "tls"
                ELSE IF "--no-tls" \in parsed.flags THEN "no-tls"
                ELSE "none"
    IN IF {"--tls", "--no-tls"} \subseteq parsed.flags
       THEN [err |-> UsageError("flags"), hosts |-> hosts]
       ELSE IF Len(parsed.rest) = 0
       THEN [err |-> UsageError("hostArgs"), hosts |-> hosts]
       ELSE AddHosts(hosts, parsed.rest, flag)

RemoveAt(hosts, idx) == SubSeq(hosts, 1, idx - 1) \o SubSeq(hosts, idx + 1, Len(hosts))

\* handleRemove, lines 237-246: the hosts left, how many were removed and
\* the names that were not managed.
RECURSIVE RemoveAll(_, _, _, _)
RemoveAll(hosts, arguments, removed, missing) ==
    IF Len(arguments) = 0
    THEN [hosts |-> hosts, removed |-> removed, missing |-> missing]
    ELSE LET name == NormalizeHostName(Word(arguments[1]))
             idx == FindHostIndex(hosts, name)
         IN IF idx = 0
            THEN RemoveAll(hosts, Tail(arguments), removed, Append(missing, name))
            ELSE RemoveAll(RemoveAt(hosts, idx), Tail(arguments), removed + 1, missing)

WarningsNone(missing) == <<>>

\* handleRemove, lines 248-252: one warning on stderr per missing name.
Warnings(missing) == [i \in 1..Len(missing) |-> <<"warn", missing[i]>>]

\* A command begins: what every Start action sets.
Begin(name, arguments) ==
    /\ args' = arguments
    /\ pc = "idle"
    /\ ncmds < MaxCmds
    /\ cmd' = name
    /\ ncmds' = ncmds + 1
    /\ pre' = Snapshot
    /\ includeRes' = EmptyUpdateResult
    /\ hostsRes' = EmptyApplyResult
    /\ rbErrs' = Nil
    /\ UNCHANGED <<hostsFile, backups, now, includeFile, doc, base, proxyCfg, lastOk,
                   hosts0, tmp, reloadOut, loaded>>

\* The handler validated `hosts` with result v: on an error the command
\* returns it, otherwise applyState starts; `printed` is what the handler
\* wrote to stderr before.
Validated(v, printed) ==
    IF v.err # Nil
    THEN /\ pc' = "done"
         /\ retErr' = v.err
         /\ fwdErr' = v.err
         /\ oplog' = printed \o <<Err("ValidateSnapshot")>>
         /\ desired' = v.hosts
    ELSE /\ pc' = "ensure"
         /\ retErr' = Nil
         /\ fwdErr' = Nil
         /\ oplog' = printed
         /\ desired' = v.hosts

\* The handler returns `err` before it validates anything.
Returned(err, hosts, printed) ==
    /\ pc' = "done"
    /\ retErr' = err
    /\ fwdErr' = err
    /\ oplog' = printed
    /\ desired' = hosts

\* Run, lines 96-103: Load validates the document; on an error Run returns.
LoadFails ==
    /\ ValidateSnapshot(doc).err # Nil
    /\ Begin("load", <<>>)
    /\ Validated(ValidateSnapshot(doc), <<>>)

StartApply ==
    /\ ValidateSnapshot(doc).err = Nil
    /\ Begin("apply", <<>>)
    /\ Validated(ValidateSnapshot(ValidateSnapshot(doc).hosts), <<>>)

StartAdd(arguments) ==
    /\ ValidateSnapshot(doc).err = Nil
    /\ Begin("add", arguments)
    /\ LET r == handleAdd(ValidateSnapshot(doc).hosts, arguments)
       IN IF r.err # Nil
          THEN Returned(r.err, r.hosts, <<Err("handleAdd")>>)
          ELSE Validated(ValidateSnapshot(r.hosts), <<>>)

StartRemove(arguments) ==
    /\ ValidateSnapshot(doc).err = Nil
    /\ Begin("remove", arguments)
    /\ LET r == RemoveAll(ValidateSnapshot(doc).hosts, arguments, 0, <<>>)
       IN IF Len(arguments) = 0
          THEN Returned(UsageError("hostNames"), r.hosts, <<Err("handleRemove")>>)
          ELSE IF r.removed = 0
          THEN Returned(Nil, r.hosts, Warnings(r.missing))
          ELSE Validated(ValidateSnapshot(r.hosts), Warnings(r.missing))

\* applyState, line 298.
Ensure(f) ==
    /\ pc = "ensure"
    /\ LET err == EnsureBaseReady(base, IncludePath, desired, f)
       IN /\ pc' = EnsureThen(err)
          /\ retErr' = err
          /\ fwdErr' = err
          /\ oplog' = oplog \o <<Call("EnsureBaseReady")>>
                      \o (IF err # Nil THEN <<Err("EnsureBaseReady")>> ELSE <<>>)
    /\ UNCHANGED <<hostsFile, backups, now, includeFile, doc, base, proxyCfg, cmd, desired,
                   includeRes, hostsRes, rbErrs, pre, lastOk, ncmds, hosts0, tmp, reloadOut, args, loaded>>

\* Going on to the managed-block write whatever UpdateInclude returned.
UpdateThenContinues(err) == "hosts"

\* applyState, lines 303-305: where it goes once UpdateInclude has returned.
UpdateThen(err) == IF err # Nil THEN "done" ELSE "hosts"

\* applyState, lines 302-305.
Update(f) ==
    /\ pc = "update"
    /\ LET r == UpdateInclude(includeFile, GenerateInclude(desired), f)
       IN /\ includeFile' = r.file
          /\ includeRes' = r.res
          /\ retErr' = r.err
          /\ fwdErr' = r.err
          /\ pc' = UpdateThen(r.err)
          /\ oplog' = oplog \o <<Call("UpdateInclude")>> \o r.ops
                      \o (IF r.err # Nil THEN <<Err("UpdateInclude")>> ELSE <<>>)
    /\ UNCHANGED <<hostsFile, backups, now, doc, base, proxyCfg, cmd, desired, hostsRes,
                   rbErrs, pre, lastOk, ncmds, hosts0, tmp, reloadOut, args, loaded>>

\* Where applyState goes when Hosts.Apply has returned an error.
HostsFailedThenReturn == "done"

\* Going on to save the document after Hosts.Apply has failed.
HostsFailedThenSave == "save"
HostsFailedThenStops == "stopped"

HostsFailedThen == "hostsFailed"

\* applyState, lines 307-308.
HostsStep(f) ==
    /\ pc = "hosts"
    /\ LET r == HostsApply(hostsFile, backups, desired, f, now)
       IN /\ hostsFile' = r.file
          /\ backups' = r.backups
          /\ hostsRes' = r.res
          /\ retErr' = r.err
          /\ fwdErr' = r.err
          /\ pc' = IF r.err # Nil THEN HostsFailedThen ELSE "reload"
          /\ oplog' = oplog \o <<Call("Hosts.Apply")>> \o r.ops
                      \o (IF r.err # Nil THEN <<Err("Hosts.Apply")>> ELSE <<>>)
    /\ UNCHANGED <<now, includeFile, doc, base, proxyCfg, cmd, desired, includeRes,
                   rbErrs, pre, lastOk, ncmds, hosts0, tmp, reloadOut, args, loaded>>

\* A compensating RestoreInclude(includeRes) whose error is discarded.
RestoreIncludeStep(f, next) ==
    LET r == RestoreInclude(includeRes, includeFile, f)
    IN /\ includeFile' = r.file
       /\ rbErrs' = rbErrs \cup r.err
       /\ pc' = next
       /\ oplog' = oplog \o <<Call("RestoreInclude")>> \o r.ops
                   \o (IF r.err # Nil THEN <<Err("RestoreInclude")>> ELSE <<>>)

\* A compensating Hosts.Restore(hostsRes) whose error is discarded.
RestoreHostsStep(f, next) ==
    LET r == HostsRestore(hostsRes, hostsFile, backups, f, now)
    IN /\ hostsFile' = r.file
       /\ backups' = r.backups
       /\ rbErrs' = rbErrs \cup r.err
       /\ pc' = next
       /\ oplog' = oplog \o <<Call("Hosts.Restore")>> \o r.ops
                   \o (IF r.err # Nil THEN <<Err("Hosts.Restore")>> ELSE <<>>)

\* applyState, lines 309-310: Hosts.Apply failed.
HostsFailed(f) ==
    /\ pc = "hostsFailed"
    /\ RestoreIncludeStep(f, "done")
    /\ UNCHANGED <<hostsFile, backups, now, doc, base, proxyCfg, cmd, desired, includeRes,
                   hostsRes, retErr, fwdErr, pre, lastOk, ncmds, hosts0, tmp, reloadOut, args, loaded>>

ReloadError ==
    {[op |-> "reload", path |-> "caddy", kind |-> "exit", names |-> <<>>,
      sudo |-> FALSE, text |-> <<>>]}

\* What the proxy prints on its two streams.
ReloadOutputs ==
    {[Stdout |-> <<" ", NL>>, Stderr |-> <<>>],
     [Stdout |-> <<"ok", NL>>, Stderr |-> <<" ", NL>>],
     [Stdout |-> <<"ok", NL>>, Stderr |-> <<NL, "adapt", " ", "error", NL>>]}

\* ExecRunner.Run: both streams are returned with or without an error.
Run(ok, out) == [res |-> out, err |-> IF ok THEN Nil ELSE ReloadError]

\* Preferring standard output.
ReloadDetailsStdoutFirst(out) ==
    IF TrimSpace(out.Stdout) = <<>> THEN TrimSpace(out.Stderr)
    ELSE TrimSpace(out.Stdout)

\* applyState, lines 317-320: the detail text of a failed reload.
ReloadDetails(out) ==
    IF TrimSpace(out.Stderr) = <<>> THEN TrimSpace(out.Stdout)
    ELSE TrimSpace(out.Stderr)

\* applyState, lines 321-324: the error wraps err; its message continues
\* with ": " and the details when there are any.
ReloadFailed(err, details) ==
    {[e EXCEPT !.text = IF details # <<>> THEN <<": ">> \o details ELSE <<>>] : e \in err}

\* applyState, lines 313-314 and 327: the reload and its result.  On
\* success applyState returns and what the proxy printed is dropped unread.
Reload(ok, out) ==
    /\ pc = "reload"
    /\ reloadOut' = IF Run(ok, out).err # Nil THEN Run(ok, out).res ELSE NoOutput
    /\ oplog' = oplog \o <<Call("Reload")>> \o (IF ok THEN <<>> ELSE <<Err("Reload")>>)
    /\ IF ok
       THEN /\ proxyCfg' = includeFile.data
            /\ retErr' = Nil
            /\ fwdErr' = Nil
            /\ pc' = IF cmd = "apply" THEN "done" ELSE "save"
       ELSE /\ proxyCfg' = proxyCfg
            /\ retErr' = Run(ok, out).err
            /\ fwdErr' = Run(ok, out).err
            /\ pc' = "reloadFailed1"
    /\ UNCHANGED <<hostsFile, backups, now, includeFile, doc, base, cmd, desired,
                   includeRes, hostsRes, rbErrs, pre, lastOk, ncmds, hosts0, tmp, args,
                   loaded>>

\* applyState, line 315.
ReloadFailedInclude(f) ==
    /\ pc = "reloadFailed1"
    /\ RestoreIncludeStep(f, "reloadFailed2")
    /\ UNCHANGED <<hostsFile, backups, now, doc, base, proxyCfg, cmd, desired, includeRes,
                   hostsRes, retErr, fwdErr, pre, lastOk, ncmds, hosts0, tmp, reloadOut, args, loaded>>

\* applyState, lines 316-324.
ReloadFailedHosts(f) ==
    /\ pc = "reloadFailed2"
    /\ RestoreHostsStep(f, "done")
    /\ retErr' = ReloadFailed(retErr, ReloadDetails(reloadOut))
    /\ UNCHANGED <<now, includeFile, doc, base, proxyCfg, cmd, desired, includeRes,
                   hostsRes, fwdErr, pre, lastOk, ncmds, hosts0, tmp, reloadOut, args, loaded>>

SaveFaultPoints == {"mkdir", "write"}

\* handleAdd lines 219-224, handleRemove lines 265-270: Loader.Save.
Save(f) ==
    /\ pc = "save"
    /\ IF f.at = "none"
       THEN /\ doc' = desired
            /\ retErr' = Nil
            /\ fwdErr' = Nil
            /\ pc' = "done"
            /\ oplog' = oplog \o <<Call("Save"), <<"mkdir", "doc.dir">>, <<"write", "doc">>>>
       ELSE /\ doc' = doc
            /\ retErr' = {Unwrapped(f.at, "doc", f.kind)}
            /\ fwdErr' = {Unwrapped(f.at, "doc", f.kind)}
            /\ pc' = "rollback1"
            /\ oplog' = oplog \o <<Call("Save")>>
                        \o (IF f.at = "write" THEN <<<<"mkdir", "doc.dir">>>> ELSE <<>>)
                        \o <<Err("Save")>>
    /\ UNCHANGED <<hostsFile, backups, now, includeFile, base, proxyCfg, cmd, desired,
                   includeRes, hostsRes, rbErrs, pre, lastOk, ncmds, hosts0, tmp, reloadOut, args, loaded>>

\* rollbackOutcome, lines 332-336.
RollbackInclude(f) ==
    /\ pc = "rollback1"
    /\ IF includeRes.Changed
       THEN RestoreIncludeStep(f, "rollback2")
       ELSE /\ pc' = "rollback2"
            /\ UNCHANGED <<includeFile, rbErrs, oplog>>
    /\ UNCHANGED <<hostsFile, backups, now, doc, base, proxyCfg, cmd, desired, includeRes,
                   hostsRes, retErr, fwdErr, pre, lastOk, ncmds, hosts0, tmp, reloadOut, args, loaded>>

\* rollbackOutcome, lines 337-345, and the error the handler then returns.
RollbackHosts(f) ==
    /\ pc = "rollback2"
    /\ IF hostsRes.Changed
       THEN RestoreHostsStep(f, "done")
       ELSE /\ pc' = "done"
            /\ UNCHANGED <<hostsFile, backups, rbErrs, oplog>>
    /\ retErr' = fwdErr \cup Stringified(rbErrs')
    /\ UNCHANGED <<now, includeFile, doc, base, proxyCfg, cmd, desired, includeRes,
                   hostsRes, fwdErr, pre, lastOk, ncmds, hosts0, tmp, reloadOut, args, loaded>>

\* A command that succeeded has returned and, in the same second or the
\* next, the user may run another.  What the command held in memory is gone;
\* the files stay.  (A failed command ends the session: nothing is retried,
\* the user has to act first.)
Finish(t) ==
    /\ pc = "done"
    /\ retErr = Nil
    /\ pc' = "idle"
    /\ now' = t
    /\ lastOk' = IF Call("Reload") \in {oplog[i] : i \in 1..Len(oplog)}
                 THEN [ok |-> TRUE, hosts |-> desired] ELSE NoLast
    /\ desired' = <<>>
    /\ includeRes' = EmptyUpdateResult
    /\ hostsRes' = EmptyApplyResult
    /\ retErr' = Nil
    /\ rbErrs' = Nil
    /\ fwdErr' = Nil
    /\ oplog' = <<>>
    /\ pre' = Snapshot
    /\ reloadOut' = NoOutput
    /\ args' = <<>>
    /\ UNCHANGED <<hostsFile, backups, includeFile, doc, base, proxyCfg, cmd, ncmds, hosts0, tmp,
                   loaded>>

Next ==
    \/ LoadFails
    \/ StartApply
    \/ \E arguments \in AddArgs : StartAdd(arguments)
    \/ \E arguments \in RemoveArgs : StartRemove(arguments)
    \/ \E f \in Faults({"read"}, Kinds) : Ensure(f)
    \/ \E f \in Faults(UpdateFaultPoints, Kinds) : Update(f)
    \/ \E f \in Faults(ApplyFaultPoints, Kinds) : HostsStep(f)
    \/ \E f \in Faults(RestoreIncludeFaultPoints, Kinds) : HostsFailed(f)
    \/ \E ok \in BOOLEAN, out \in ReloadOutputs : Reload(ok, out)
    \/ \E f \in Faults(RestoreIncludeFaultPoints, Kinds) : ReloadFailedInclude(f)
    \/ \E f \in Faults(RestoreFaultPoints, Kinds) : ReloadFailedHosts(f)
    \/ \E f \in Faults(SaveFaultPoints, Kinds) : Save(f)
    \/ \E f \in Faults(RestoreIncludeFaultPoints, Kinds) : RollbackInclude(f)
    \/ \E f \in Faults(RestoreFaultPoints, Kinds) : RollbackHosts(f)
    \/ \E t \in {now, IF now < MaxClock THEN now + 1 ELSE now} : Finish(t)

Spec == Init /\ [][Next]_vars

\* ------------------------------------------------ the command's event log
InLog(e) == \E i \in 1..Len(oplog) : oplog[i] = e

MutationOps == {"write", "rename", "mkdir", "remove"}
NoMutation == \A i \in 1..Len(oplog) : oplog[i][1] \notin MutationOps

\* -------------------------------------------------------------------- C1
\* C1 (as claimed, in the runs where both compensating restores return nil):
\* if applyState reaches the reload and the reload fails, both the fragment
\* file and the resolution file have their pre-apply existence and bytes when
\* applyState returns.
C1_ReloadFailureRestoresBoth ==
    (pc = "done" /\ InLog(Err("Reload")) /\ rbErrs = Nil)
        => (hostsFile = pre.hosts /\ includeFile = pre.include)

\* -------------------------------------------------------------------- C2
\* C2: once EnsureBaseReady or ValidateSnapshot has failed, the command has
\* performed and performs no write, rename, mkdir or remove, the fragment,
\* resolution, backup and document files are as before the command, no write
\* step is called and the reload is never invoked.
C2_ValidationNoSideEffects ==
    (InLog(Err("EnsureBaseReady")) \/ InLog(Err("ValidateSnapshot"))) =>
        /\ NoMutation
        /\ Snapshot = pre
        /\ ~InLog(Call("UpdateInclude"))
        /\ ~InLog(Call("Hosts.Apply"))
        /\ ~InLog(Call("Reload"))
        /\ ~InLog(Call("Save"))

C2_Witness ==
    /\ pc = "done"
    /\ InLog(Err("EnsureBaseReady"))
    /\ \E e \in retErr : e.op = "conflict" /\ e.names = <<"a">>
    /\ includeFile # FileOf(GenerateInclude(desired))
    /\ hostsFile # FileOf(ApplyFinal(hostsFile.data, desired))

C4_RollbackReverseOrder ==
    \A i, j \in 1..Len(oplog) :
        (oplog[i] = Call("RestoreInclude") /\ oplog[j] = Call("Hosts.Restore")) => j < i

\* -------------------------------------------------------------------- C5
\* C5 (as claimed): when a compensating restore fails while applyState
\* unwinds after a managed-block or reload failure, the error applyState
\* returns reports both the original failure and the rollback failure.
C5_RollbackErrorsReported ==
    (pc = "done" /\ rbErrs # Nil /\ (InLog(Err("Hosts.Apply")) \/ InLog(Err("Reload"))))
        => (fwdErr \subseteq retErr /\ rbErrs \subseteq retErr)

\* -------------------------------------------------------------------- C6
\* C6 (as claimed): when an applyState follows at once a successful
\* applyState of the same desired state, both of its writes report
\* Changed = FALSE and it performs no write, rename, backup or remove.
C6_Idempotent ==
    (pc = "reload" /\ lastOk.ok /\ lastOk.hosts = desired) =>
        /\ ~includeRes.Changed
        /\ ~hostsRes.Changed
        /\ NoMutation

\* ------------------------------------------------------------------- C11
\* The lines of the last managed region of the file: those after its last
\* begin marker, up to the end marker that follows.
LastStart(lines) ==
    CHOOSE i \in 1..Len(lines) :
        lines[i] = blockStart /\ \A j \in (i + 1)..Len(lines) : lines[j] # blockStart

RegionLines(lines) ==
    IF Count(lines, blockStart) = 0 THEN <<>>
    ELSE LET s == LastStart(lines)
             e == IF \E j \in (s + 1)..Len(lines) : lines[j] = blockEnd
                  THEN CHOOSE j \in (s + 1)..Len(lines) :
                           lines[j] = blockEnd
                           /\ \A k \in (s + 1)..(j - 1) : lines[k] # blockEnd
                  ELSE Len(lines) + 1
         IN SubSeq(lines, s + 1, e - 1)

\* The hostnames on a mapping line: its fields after the loopback address.
MappingNames(line) ==
    IF HasPrefix(line, loopbackPrefix)
    THEN LET fs == Fields(SubSeq(line, Len(loopbackPrefix) + 1, Len(line)))
         IN {fs[i] : i \in 1..Len(fs)}
    ELSE {}

ReadBackNames(file) ==
    LET r == RegionLines(LinesOf(file))
    IN UNION {MappingNames(r[i]) : i \in 1..Len(r)}

GivenNames(hosts) == {TokensOf(hosts[i].Name) : i \in 1..Len(hosts)}

UniqueNonEmpty(hosts) ==
    /\ Len(hosts) > 0
    /\ \A i \in 1..Len(hosts) : hosts[i].Name # ""
    /\ \A i, j \in 1..Len(hosts) : i # j => hosts[i].Name # hosts[j].Name

\* C11 (as claimed): after a successful Apply of a host list with unique
\* non-empty names, the set of hostnames read back from the managed region
\* of the file equals the set of names of the list.
C11_RoundTrip ==
    (Applied /\ UniqueNonEmpty(desired)) => ReadBackNames(hostsFile) = GivenNames(desired)

NoBlank(hosts) ==
    \A i \in 1..Len(hosts) : \A k \in 1..Len(TokensOf(hosts[i].Name)) :
        ~IsSpace(TokensOf(hosts[i].Name)[k])

\* C11 (amended): the same for the lists whose names hold no white space.
C11_RoundTripNoBlank ==
    (Applied /\ UniqueNonEmpty(desired) /\ NoBlank(desired))
        => ReadBackNames(hostsFile) = GivenNames(desired)

C11_Witness ==
    /\ Applied
    /\ Len(desired) = 2 /\ desired[1].Name = "b" /\ desired[2].Name = "a"
    /\ hostsRes.Changed
    /\ pre.hosts.exists /\ Count(LinesOf(pre.hosts), blockStart) = 1
    /\ ReadBackNames(hostsFile) = {<<"a">>, <<"b">>}

\* ------------------------------------------------------------------- C12
\* The file holds a managed region and none of its regions is corrupted.
HasWellFormedRegion(lines) == Count(lines, blockStart) >= 1 /\ ~Corrupted(lines)

\* What an Apply of the empty list must leave: no marker, and exactly the
\* lines that were outside the regions (blank lines at the end dropped),
\* each ended by a newline; nothing at all if there were none.
RegionRemoved(before, after) ==
    LET u == DropTrailingBlank(Unmanaged(LinesOf(before)))
    IN /\ after.exists
       /\ Count(LinesOf(after), blockStart) = 0
       /\ Count(LinesOf(after), blockEnd) = 0
       /\ after.data = (IF u = <<>> THEN <<>> ELSE Join(u, newline) \o newline)

\* C12 (as claimed): Manager.Apply with an empty host list on a file that
\* has a well-formed managed region leaves a file with no begin or end
\* marker holding only the content outside the region, and an empty file if
\* the region was all it held.
C12_EmptyListRemovesRegion ==
    (Applied /\ desired = <<>> /\ HasWellFormedRegion(LinesOf(pre.hosts)))
        => RegionRemoved(pre.hosts, hostsFile)

\* C12 (amended): the same for the files whose only marker lines are those
\* of well-formed regions, i.e. with no end marker outside a region.
C12_EmptyListRemovesRegionNoStrayEnd ==
    (Applied /\ desired = <<>> /\ HasWellFormedRegion(LinesOf(pre.hosts))
        /\ ~HasUnmatchedEnd(LinesOf(pre.hosts)))
        => RegionRemoved(pre.hosts, hostsFile)

C12_Witness ==
    /\ Applied /\ desired = <<>>
    /\ HasWellFormedRegion(LinesOf(pre.hosts))
    /\ ~HasUnmatchedEnd(LinesOf(pre.hosts))
    /\ ReadBackNames(pre.hosts) # {}
    /\ DropTrailingBlank(Unmanaged(LinesOf(pre.hosts))) # <<>>
    /\ hostsRes.Changed
    /\ RegionRemoved(pre.hosts, hostsFile)

\* ------------------------------------------------------------------- C13
\* A library Restore of the last Apply's result has just returned nil.
Restored == pc = "lib" /\ cmd = "Restore" /\ retErr = Nil

\* C13 (as claimed): Manager.Apply that changed the resolution file followed
\* by Manager.Restore of its result leaves the file as it was before the
\* Apply: absent if it was absent, byte-identical if it existed.
C13_RestoreUndoesApply ==
    (Restored /\ hostsRes.Changed) => hostsFile = pre.hosts

\* ------------------------------------------------------------------- C14
\* C14: once UpdateInclude has succeeded its result's Existed flag tells
\* whether the fragment file existed before the write, and once
\* RestoreInclude of that result has succeeded the fragment file has its
\* prior existence and bytes; removing an absent file is not an error.
C14_IncludeRoundTrip ==
    /\ (InLog(Call("UpdateInclude")) /\ ~InLog(Err("UpdateInclude")))
           => includeRes.Existed = pre.include.exists
    /\ (InLog(Call("RestoreInclude")) /\ ~InLog(Err("RestoreInclude")))
           => includeFile = pre.include
    /\ (includeRes.Path # NoPath /\ ~includeRes.Existed)
           => RestoreInclude(includeRes, Absent, NoFault)
                  = [file |-> Absent, err |-> Nil, ops |-> <<<<"remove", "include">>>>]

C14_Witness ==
    /\ InLog(Call("RestoreInclude")) /\ ~InLog(Err("RestoreInclude"))
    /\ includeRes.Changed /\ ~includeRes.Existed
    /\ ~pre.include.exists
    /\ InLog(<<"rename", "include">>) /\ InLog(<<"remove", "include">>)
    /\ includeFile = Absent

\* ------------------------------------- SpecCrash: one filesystem call a step
\* UpdateInclude and Manager.Apply run one FS call at a time, so that every
\* point at which the process can stop is a state.  os.WriteFile opens the
\* file with O_TRUNC and then writes: between the two the file holds a
\* prefix of the data.
Partials(data) == {SubSeq(data, 1, k) : k \in 0..Len(data)}

CrashHostLists == {<<>>, <<HostA>>, <<HostA, HostB>>}

InitCrash ==
    /\ hostsFile \in CliHostsFiles
    /\ hosts0 = hostsFile
    /\ tmp = Absent
    /\ reloadOut = NoOutput
    /\ args = <<>>
    /\ loaded = NoLoaded
    /\ backups = NoBackups
    /\ now = 1
    /\ includeFile \in IncludeFiles
    /\ doc = <<>>
    /\ base = <<>>
    /\ proxyCfg = <<>>
    /\ pc = "ready"
    /\ cmd = "none"
    /\ desired = <<>>
    /\ includeRes = EmptyUpdateResult
    /\ hostsRes = EmptyApplyResult
    /\ retErr = Nil
    /\ rbErrs = Nil
    /\ fwdErr = Nil
    /\ oplog = <<>>
    /\ pre = Snapshot
    /\ lastOk = NoLast
    /\ ncmds = 0

\* What no step of SpecCrash changes.
CrashFrame == UNCHANGED <<now, doc, base, proxyCfg, rbErrs, fwdErr, lastOk, hosts0,
                         reloadOut, args, loaded>>

\* A call of name begins with the host list hosts.
CrashCall(name, hosts, first) ==
    /\ pc = "ready"
    /\ ncmds < MaxApplies
    /\ cmd' = name
    /\ desired' = hosts
    /\ pre' = Snapshot
    /\ pc' = first
    /\ ncmds' = ncmds + 1
    /\ retErr' = Nil
    /\ oplog' = <<>>
    /\ includeRes' = EmptyUpdateResult
    /\ hostsRes' = EmptyApplyResult
    /\ UNCHANGED <<hostsFile, includeFile, backups, tmp>>
    /\ CrashFrame

\* The call returns err and the results given.
CrashReturn(err, ares, ures) ==
    /\ pc' = "ready"
    /\ retErr' = err
    /\ hostsRes' = ares
    /\ includeRes' = ures

\* The call goes on to its next FS call.
CrashGoto(next) ==
    /\ pc' = next
    /\ UNCHANGED <<retErr, hostsRes, includeRes>>

CrashLog(ops) == oplog' = oplog \o ops

StepFrame == UNCHANGED <<cmd, desired, pre, ncmds>> /\ CrashFrame

\* Manager.Apply, FS call by FS call.  The bytes read at line 60, the
\* content computed at lines 65-78 and the backup path of line 86.
CrashOriginal == IF pre.hosts.exists THEN pre.hosts.data ELSE <<>>
CrashFinal == ApplyFinal(CrashOriginal, desired)
CrashBackupPath == IF pre.hosts.exists THEN now ELSE 0

CrashApply(hosts) == CrashCall("Apply", hosts, "apply.read")

\* lines 60-82
ApplyRead(f) ==
    /\ pc = "apply.read"
    /\ IF f.at = "read"
       THEN CrashReturn(Failure("read", "hosts", f), EmptyApplyResult, EmptyUpdateResult)
       ELSE IF CrashOriginal = CrashFinal
       THEN CrashReturn(Nil, [Changed |-> FALSE, BackupPath |-> 0, Path |-> NoPath],
                        EmptyUpdateResult)
       ELSE CrashGoto(IF pre.hosts.exists THEN "apply.backup" ELSE "apply.mkdir")
    /\ CrashLog(<<>>)
    /\ UNCHANGED <<hostsFile, includeFile, backups, tmp>>
    /\ StepFrame

\* lines 85-90: WriteFile(backupPath, original)
ApplyBackup(f) ==
    /\ pc \in {"apply.backup", "apply.backup.writing"}
    /\ IF f.at = "backup"
       THEN /\ CrashReturn(Failure("backup", "hosts.bak", f), EmptyApplyResult,
                           EmptyUpdateResult)
            /\ CrashLog(<<>>)
            /\ UNCHANGED backups
       ELSE IF pc = "apply.backup"
       THEN /\ \E d \in Partials(CrashOriginal) :
                   backups' = [backups EXCEPT ![now] = FileOf(d)]
            /\ CrashGoto("apply.backup.writing")
            /\ CrashLog(<<<<"write", "hosts.bak">>>>)
       ELSE /\ backups' = [backups EXCEPT ![now] = FileOf(CrashOriginal)]
            /\ CrashGoto("apply.mkdir")
            /\ CrashLog(<<>>)
    /\ UNCHANGED <<hostsFile, includeFile, tmp>>
    /\ StepFrame

\* lines 92-95
ApplyMkdir(f) ==
    /\ pc = "apply.mkdir"
    /\ IF f.at = "mkdir"
       THEN /\ CrashReturn(Failure("mkdir", "hosts.dir", f), EmptyApplyResult,
                           EmptyUpdateResult)
            /\ CrashLog(<<>>)
       ELSE /\ CrashGoto("apply.temp")
            /\ CrashLog(<<<<"mkdir", "hosts.dir">>>>)
    /\ UNCHANGED <<hostsFile, includeFile, backups, tmp>>
    /\ StepFrame

\* lines 97-101: WriteFile(tempPath, final), the temp file removed on error
ApplyWriteTemp(f) ==
    /\ pc \in {"apply.temp", "apply.temp.writing"}
    /\ IF f.at = "write"
       THEN /\ tmp' = Absent
            /\ CrashReturn(Failure("write", "hosts.tmp", f), EmptyApplyResult,
                           EmptyUpdateResult)
            /\ CrashLog(<<<<"remove", "hosts.tmp">>>>)
       ELSE IF pc = "apply.temp"
       THEN /\ \E d \in Partials(CrashFinal) : tmp' = FileOf(d)
            /\ CrashGoto("apply.temp.writing")
            /\ CrashLog(<<<<"write", "hosts.tmp">>>>)
       ELSE /\ tmp' = FileOf(CrashFinal)
            /\ CrashGoto("apply.rename")
            /\ CrashLog(<<>>)
    /\ UNCHANGED <<hostsFile, includeFile, backups>>
    /\ StepFrame

\* lines 103-111: Rename(tempPath, resolved); on error the temp file is
\* removed and, with a backup taken, the rewrite of lines 105-107 follows.
ApplyRename(f) ==
    /\ pc = "apply.rename"
    /\ IF f.at = "replace"
       THEN /\ tmp' = Absent
            /\ hostsFile' = hostsFile
            /\ pc' = IF CrashBackupPath # 0 THEN "apply.rewrite" ELSE "ready"
            /\ retErr' = Failure("replace", "hosts", f)
            /\ hostsRes' = EmptyApplyResult
            /\ includeRes' = EmptyUpdateResult
            /\ CrashLog(<<<<"remove", "hosts.tmp">>>>)
       ELSE /\ hostsFile' = tmp
            /\ tmp' = Absent
            /\ CrashReturn(Nil, [Changed |-> TRUE, BackupPath |-> CrashBackupPath,
                                 Path |-> HostsPath], EmptyUpdateResult)
            /\ CrashLog(<<<<"rename", "hosts">>>>)
    /\ UNCHANGED <<includeFile, backups>>
    /\ StepFrame

\* line 106: _ = WriteFile(resolved, original); its error is discarded and
\* Apply returns the rename error.
ApplyRewrite(f) ==
    /\ pc \in {"apply.rewrite", "apply.rewrite.writing"}
    /\ IF f.at = "rewrite"
       THEN /\ pc' = "ready"
            /\ hostsFile' = hostsFile
            /\ CrashLog(<<Err("rewrite")>>)
       ELSE IF pc = "apply.rewrite"
       THEN /\ \E d \in Partials(CrashOriginal) : hostsFile' = FileOf(d)
            /\ pc' = "apply.rewrite.writing"
            /\ CrashLog(<<<<"write", "hosts">>>>)
       ELSE /\ hostsFile' = FileOf(CrashOriginal)
            /\ pc' = "ready"
            /\ CrashLog(<<>>)
    /\ UNCHANGED <<retErr, hostsRes, includeRes, includeFile, backups, tmp>>
    /\ StepFrame

\* Manager.UpdateInclude, FS call by FS call.
CrashContent == GenerateInclude(desired)
CrashPrevious == IF pre.include.exists THEN pre.include.data ELSE <<>>

CrashUpdate(hosts) == CrashCall("UpdateInclude", hosts, "update.read")

\* lines 81-90
UpdateRead(f) ==
    /\ pc = "update.read"
    /\ IF f.at = "read"
       THEN CrashReturn(Failure("read", "include", f), EmptyApplyResult, EmptyUpdateResult)
       ELSE IF pre.include.exists /\ CrashPrevious = CrashContent
       THEN CrashReturn(Nil, EmptyApplyResult,
                        [Changed |-> FALSE, Path |-> IncludePath,
                         Previous |-> CrashPrevious, Existed |-> TRUE])
       ELSE CrashGoto("update.mkdir")
    /\ CrashLog(<<>>)
    /\ UNCHANGED <<hostsFile, includeFile, backups, tmp>>
    /\ StepFrame

\* lines 92-95
UpdateMkdir(f) ==
    /\ pc = "update.mkdir"
    /\ IF f.at = "mkdir"
       THEN /\ CrashReturn(Failure("mkdir", "include.dir", f), EmptyApplyResult,
                           EmptyUpdateResult)
            /\ CrashLog(<<>>)
       ELSE /\ CrashGoto("update.temp")
            /\ CrashLog(<<<<"mkdir", "include.dir">>>>)
    /\ UNCHANGED <<hostsFile, includeFile, backups, tmp>>
    /\ StepFrame

\* lines 97-101
UpdateWriteTemp(f) ==
    /\ pc \in {"update.temp", "update.temp.writing"}
    /\ IF f.at = "write"
       THEN /\ tmp' = Absent
            /\ CrashReturn(Failure("write", "include.tmp", f), EmptyApplyResult,
                           EmptyUpdateResult)
            /\ CrashLog(<<<<"remove", "include.tmp">>>>)
       ELSE IF pc = "update.temp"
       THEN /\ \E d \in Partials(CrashContent) : tmp' = FileOf(d)
            /\ CrashGoto("update.temp.writing")
            /\ CrashLog(<<<<"write", "include.tmp">>>>)
       ELSE /\ tmp' = FileOf(CrashContent)
            /\ CrashGoto("update.rename")
            /\ CrashLog(<<>>)
    /\ UNCHANGED <<hostsFile, includeFile, backups>>
    /\ StepFrame

\* lines 103-108
UpdateRename(f) ==
    /\ pc = "update.rename"
    /\ IF f.at = "replace"
       THEN /\ tmp' = Absent
            /\ includeFile' = includeFile
            /\ CrashReturn(Failure("replace", "include", f), EmptyApplyResult,
                           EmptyUpdateResult)
            /\ CrashLog(<<<<"remove", "include.tmp">>>>)
       ELSE /\ includeFile' = tmp
            /\ tmp' = Absent
            /\ CrashReturn(Nil, EmptyApplyResult,
                           [Changed |-> TRUE, Path |-> IncludePath,
                            Previous |-> CrashPrevious, Existed |-> pre.include.exists])
            /\ CrashLog(<<<<"rename", "include">>>>)
    /\ UNCHANGED <<hostsFile, backups>>
    /\ StepFrame

NextCrash ==
    \/ \E hosts \in CrashHostLists : CrashApply(hosts)
    \/ \E f \in Faults({"read"}, Kinds) : ApplyRead(f)
    \/ \E f \in Faults({"backup"}, Kinds) : ApplyBackup(f)
    \/ \E f \in Faults({"mkdir"}, Kinds) : ApplyMkdir(f)
    \/ \E f \in Faults({"write"}, Kinds) : ApplyWriteTemp(f)
    \/ \E f \in Faults({"replace"}, Kinds) : ApplyRename(f)
    \/ \E f \in Faults({"rewrite"}, Kinds) : ApplyRewrite(f)
    \/ \E hosts \in CrashHostLists : CrashUpdate(hosts)
    \/ \E f \in Faults({"read"}, Kinds) : UpdateRead(f)
    \/ \E f \in Faults({"mkdir"}, Kinds) : UpdateMkdir(f)
    \/ \E f \in Faults({"write"}, Kinds) : UpdateWriteTemp(f)
    \/ \E f \in Faults({"replace"}, Kinds) : UpdateRename(f)

SpecCrash == InitCrash /\ [][NextCrash]_vars

\* ------------------------------------------------------------------- C15
\* C15 (as claimed): at whatever point of UpdateInclude or Manager.Apply the
\* process stops, failure paths included, the target is as it was before
\* the call (absent, or holding its complete old content) or holds the
\* complete new content.
C15_CrashAtomic ==
    /\ cmd = "Apply" =>
           /\ hostsFile \in {pre.hosts, FileOf(CrashFinal)}
           /\ includeFile = pre.include
    /\ cmd = "UpdateInclude" =>
           /\ includeFile \in {pre.include, FileOf(CrashContent)}
           /\ hostsFile = pre.hosts

\* ------------------------------------------------------------------- C16
\* The bytes of a file, a file that does not exist counting as empty.
CurrentBytes(file) == IF file.exists THEN file.data ELSE <<>>

\* C16 (as claimed): when the content requested equals the fragment's
\* current bytes (none, for a file that does not exist), UpdateInclude
\* returns Changed = FALSE and performs no mkdir, write, rename or remove;
\* an empty host list with no fragment file creates no fragment file.
C16_NoOpWhenCurrent ==
    (pc = "hosts" /\ GenerateInclude(desired) = CurrentBytes(pre.include)) =>
        /\ ~includeRes.Changed
        /\ NoMutation
        /\ includeFile = pre.include

\* ------------------------------------------------------------------- C17
\* Entry a is in the log and lies before every entry b.
Before(a, b) ==
    /\ InLog(a)
    /\ \A i, j \in 1..Len(oplog) : (oplog[i] = a /\ oplog[j] = b) => i < j

\* C17: when Hosts.Apply changes a resolution file that existed, the backup
\* named by the clock holds exactly the pre-apply bytes, was written before
\* the temp file was written and renamed, and is returned in the result;
\* when the backup write fails Apply returns the error with the resolution
\* file and every backup untouched and no temp file written; and no backup
\* is written when the file did not exist or already held the content.
C17_BackupPrecedesMutation ==
    /\ (pc = "reload" /\ hostsRes.Changed /\ pre.hosts.exists) =>
           /\ hostsRes.BackupPath = now
           /\ backups[hostsRes.BackupPath] = FileOf(pre.hosts.data)
           /\ Before(<<"write", "hosts.bak">>, <<"write", "hosts.tmp">>)
           /\ Before(<<"write", "hosts.tmp">>, <<"rename", "hosts">>)
    /\ (pc = "hostsFailed" /\ \E e \in retErr : e.op = "backup") =>
           /\ hostsFile = pre.hosts
           /\ backups = pre.backups
           /\ ~InLog(<<"write", "hosts.tmp">>) /\ ~InLog(<<"rename", "hosts">>)
           /\ hostsRes = EmptyApplyResult
    /\ (pc \in {"reload", "hostsFailed"}
            /\ (~pre.hosts.exists \/ (pc = "reload" /\ ~hostsRes.Changed))) =>
           /\ backups = pre.backups
           /\ ~InLog(<<"write", "hosts.bak">>)
           /\ hostsRes.BackupPath = 0

C17_Witness ==
    /\ pc = "reload" /\ hostsRes.Changed
    /\ pre.hosts.exists /\ pre.hosts.data # <<>>
    /\ backups[hostsRes.BackupPath] = pre.hosts
    /\ hostsFile # pre.hosts

\* ------------------------------------------------------------------- C18
\* The filesystem steps of EnsureBaseReady, UpdateInclude, RestoreInclude,
\* Manager.Apply and Manager.Restore.
FsOps == {"read", "backup", "mkdir", "write", "replace", "remove", "restore"}

\* applyState returned the error of one of its three forward file steps.
FileStepFailed ==
    \/ InLog(Err("EnsureBaseReady"))
    \/ InLog(Err("UpdateInclude"))
    \/ InLog(Err("Hosts.Apply"))

\* The errors the five functions have returned during the command.
StepErrors == rbErrs \cup (IF FileStepFailed THEN fwdErr ELSE Nil)

\* Some failure in err was caused by insufficient rights.
CausedByPermission(err) == \E e \in err : e.kind = "permission"

\* C18: a failed filesystem step of EnsureBaseReady, UpdateInclude,
\* RestoreInclude, Manager.Apply or Manager.Restore returns an error for
\* which IsErrNeedsSudo is true exactly when the cause was insufficient
\* rights, and the error applyState returns for a failed forward step
\* answers IsErrNeedsSudo the same way.
C18_PermissionDistinguishable ==
    /\ \A e \in StepErrors :
           e.op \in FsOps => (IsErrNeedsSudo({e}) <=> CausedByPermission({e}))
    /\ (FileStepFailed /\ pc \in {"hostsFailed", "done"}) =>
           /\ retErr = fwdErr
           /\ IsErrNeedsSudo(retErr) <=> CausedByPermission(retErr)

C18_Witness ==
    /\ pc = "done" /\ InLog(Err("Hosts.Apply"))
    /\ \E e \in retErr : e.op = "replace" /\ e.kind = "permission"
    /\ IsErrNeedsSudo(retErr)
    /\ \E e \in rbErrs : e.op = "remove" /\ e.kind = "io" /\ ~IsErrNeedsSudo({e})

\* ------------------------------------------------------------------- C19
\* C19: when the reload fails, the error applyState returns wraps the reload
\* error and continues with the trimmed error stream if that is non-empty,
\* otherwise with the trimmed standard output if that is non-empty,
\* otherwise with no detail text; the streams are captured whether or not
\* the reload succeeds.
C19_ReloadDiagnostics ==
    /\ (pc = "done" /\ InLog(Err("Reload"))) =>
           LET stderr == TrimSpace(reloadOut.Stderr)
               stdout == TrimSpace(reloadOut.Stdout)
           IN /\ retErr # Nil
              /\ \A e \in retErr :
                     /\ [e EXCEPT !.text = <<>>] \in ReloadError
                     /\ e.text = IF stderr # <<>> THEN <<": ">> \o stderr
                                 ELSE IF stdout # <<>> THEN <<": ">> \o stdout
                                 ELSE <<>>
                     /\ e.text = <<>> \/ ~IsSpace(e.text[Len(e.text)])
    /\ \A out \in ReloadOutputs, ok \in BOOLEAN : Run(ok, out).res = out

C19_Witness ==
    /\ pc = "done" /\ InLog(Err("Reload"))
    /\ TrimSpace(reloadOut.Stderr) = <<>> /\ reloadOut.Stderr # <<>>
    /\ \E e \in retErr : e.text = <<": ", "ok">>

\* ------------------------------------------------------------------- C20
\* The forward steps of applyState, in the order of the code.
ForwardSteps == <<"EnsureBaseReady", "UpdateInclude", "Hosts.Apply", "Reload">>

\* C20: within one command the forward steps are called in the order
\* readiness check, fragment write, managed-block write, reload; a step is
\* called only when every earlier step was called before it and none had
\* returned an error; each is called at most once; nothing is written,
\* renamed, created or removed before the readiness check has succeeded and
\* the fragment write has been called; the reload is called only after both
\* writes have returned without error.
C20_StepOrder ==
    /\ \A k \in 1..4 : Count(oplog, Call(ForwardSteps[k])) <= 1
    /\ \A k \in 2..4 : \A j \in 1..Len(oplog) :
           oplog[j] = Call(ForwardSteps[k]) =>
               /\ \E i \in 1..(j - 1) : oplog[i] = Call(ForwardSteps[k - 1])
               /\ \A i \in 1..(j - 1) : \A n \in 1..4 : oplog[i] # Err(ForwardSteps[n])
    /\ \A j \in 1..Len(oplog) :
           oplog[j][1] \in MutationOps =>
               /\ \E i \in 1..(j - 1) : oplog[i] = Call("UpdateInclude")
               /\ ~InLog(Err("EnsureBaseReady"))
    /\ InLog(Call("Reload")) =>
           /\ Before(Call("UpdateInclude"), Call("Reload"))
           /\ Before(Call("Hosts.Apply"), Call("Reload"))
           /\ ~InLog(Err("UpdateInclude")) /\ ~InLog(Err("Hosts.Apply"))

C20_Witness ==
    /\ pc = "done" /\ retErr = Nil
    /\ \A k \in 1..4 : InLog(Call(ForwardSteps[k]))
    /\ InLog(<<"rename", "include">>) /\ InLog(<<"rename", "hosts">>)

\* ------------------------------------------------------------------- C21
\* Validation or a step of applyState has returned an error in this command.
ApplyFailed ==
    \/ InLog(Err("ValidateSnapshot"))
    \/ FileStepFailed
    \/ InLog(Err("Reload"))

\* Loader.Save was not called and nothing of the document was touched.
DocUntouched ==
    /\ doc = pre.doc
    /\ ~InLog(Call("Save"))
    /\ ~InLog(<<"mkdir", "doc.dir">>) /\ ~InLog(<<"write", "doc">>)

\* C21: the document is saved only by the add and remove commands and only
\* after applyState has called the reload and returned without error; when
\* validation or any step of the apply fails the persisted document is
\* unchanged; the apply command never writes the document.
C21_PersistAfterApply ==
    /\ InLog(Call("Save")) =>
           /\ cmd \in {"add", "remove"}
           /\ Before(Call("Reload"), Call("Save"))
           /\ ~ApplyFailed
    /\ doc # pre.doc => (InLog(Call("Save")) /\ InLog(<<"write", "doc">>))
    /\ ApplyFailed => DocUntouched
    /\ cmd \in {"apply", "load"} => DocUntouched

C21_Witness ==
    /\ pc = "done" /\ cmd = "add"
    /\ InLog(Err("Hosts.Apply"))
    /\ desired # pre.doc
    /\ doc = pre.doc

\* ------------------------------------------------------------------- C22
\* The command has returned after Loader.Save failed.
SaveFailedDone == pc = "done" /\ InLog(Err("Save"))

\* C22 (in the runs where the restores return nil): when applyState
\* succeeded and Loader.Save then fails in add or remove, on return the
\* fragment file and the resolution file have their pre-command existence
\* and bytes; a restore is attempted for each resource the apply changed,
\* the second also when the first failed; and the returned error holds the
\* save error and every rollback error.
C22_PersistFailureRolledBack ==
    SaveFailedDone =>
        /\ cmd \in {"add", "remove"}
        /\ includeRes.Changed => InLog(Call("RestoreInclude"))
        /\ hostsRes.Changed => InLog(Call("Hosts.Restore"))
        /\ fwdErr # Nil /\ fwdErr \subseteq retErr
        /\ Stringified(rbErrs) \subseteq retErr
        /\ rbErrs = Nil => (includeFile = pre.include /\ hostsFile = pre.hosts)

\* ------------------------------------------------------------------- C23
\* applyState has just returned without error.
ApplyStateOk ==
    /\ pc \in {"done", "save"} /\ retErr = Nil
    /\ InLog(Call("Reload")) /\ ~InLog(Call("Save"))

\* The resolution file holds one managed region listing exactly the names
\* of hosts, or no marker line at all when hosts is empty.
RegionLists(file, hosts) ==
    IF Len(hosts) = 0
    THEN Count(LinesOf(file), blockStart) = 0 /\ Count(LinesOf(file), blockEnd) = 0
    ELSE /\ file.exists
         /\ Count(LinesOf(file), blockStart) = 1 /\ Count(LinesOf(file), blockEnd) = 1
         /\ ReadBackNames(file) = GivenNames(hosts)

\* C23: whenever applyState returns without error, the fragment file holds
\* GenerateInclude(hosts), the managed region of the resolution file lists
\* exactly the desired names (no region for the empty list), the reload
\* was called after both writes and succeeded, and the outcome holds the
\* results of both writes.
C23_SuccessPostcondition ==
    ApplyStateOk =>
        /\ includeFile = FileOf(GenerateInclude(desired))
        /\ RegionLists(hostsFile, desired)
        /\ Before(Call("UpdateInclude"), Call("Reload"))
        /\ Before(Call("Hosts.Apply"), Call("Reload"))
        /\ ~InLog(Err("Reload")) /\ proxyCfg = includeFile.data
        /\ includeRes.Path = IncludePath
        /\ includeRes.Existed = pre.include.exists
        /\ includeRes.Previous = pre.include.data
        /\ includeRes.Changed <=> InLog(<<"rename", "include">>)
        /\ hostsRes.Changed <=> InLog(<<"rename", "hosts">>)
        /\ hostsRes.Changed => hostsRes.Path = HostsPath

\* --------------------------------------- SpecReady: the readiness check
\* Manager.EnsureBaseReady called directly on parent configurations made of
\* up to MaxBaseLines lines, for the fragment path IncludePath.
BaseLineForms ==
    {<<"import", " ", IncludePath>>,
     <<"import", " ", "\"", IncludePath, "\"">>,
     <<"#", " ", "import", " ", IncludePath>>,
     <<"import", " ", IncludePath, ".bak">>,
     <<"import", " ", altHomeToken(IncludePath)>>,
     <<"\t", "import", " ", "\"", altHomeToken(IncludePath), "\"">>,
     <<"import", "\t", altHomeToken(IncludePath)>>,
     <<"#", " ", "empty">>,
     <<"a", " ", "{">>,
     <<" ", "a", "{">>,
     <<"b", " ", "{">>,
     <<"x", " ", "{">>,
     <<"reverse_proxy", " ", "a">>,
     <<"}">>}

RECURSIVE LineLists(_)
LineLists(n) ==
    IF n = 0 THEN {<<>>}
    ELSE LineLists(n - 1)
         \cup {Append(l, x) : l \in LineLists(n - 1), x \in BaseLineForms}

\* A parent that imports the fragment and defines x, b and a, in this order.
BaseDefinesBoth ==
    FileOf(ImportLine \o <<"x", " ", "{", NL, "}", NL>>
           \o <<"b", " ", "{", NL, "}", NL, "a", "{", NL, "}", NL>>)

ReadyBases ==
    {Absent, BaseDefinesBoth} \cup {FileOf(IF l = <<>> THEN <<>> ELSE Join(l, newline) \o newline) :
                      l \in LineLists(MaxBaseLines)}

InitReady ==
    /\ hostsFile = Absent
    /\ hosts0 = hostsFile
    /\ tmp = Absent
    /\ reloadOut = NoOutput
    /\ args = <<>>
    /\ loaded = NoLoaded
    /\ backups = NoBackups
    /\ now = 1
    /\ includeFile = Absent
    /\ doc = <<>>
    /\ base \in ReadyBases
    /\ proxyCfg = <<>>
    /\ pc = "ready"
    /\ cmd = "EnsureBaseReady"
    /\ desired \in Docs
    /\ includeRes = EmptyUpdateResult
    /\ hostsRes = EmptyApplyResult
    /\ retErr = Nil
    /\ rbErrs = Nil
    /\ fwdErr = Nil
    /\ oplog = <<>>
    /\ pre = Snapshot
    /\ lastOk = NoLast
    /\ ncmds = 0

\* One call of EnsureBaseReady(base, IncludePath, desired); f is the fault
\* of its read.
ReadyCheck(f) ==
    /\ pc = "ready"
    /\ pc' = "checked"
    /\ retErr' = EnsureBaseReady(base, IncludePath, desired, f)
    /\ oplog' = <<Call("EnsureBaseReady")>>
    /\ UNCHANGED <<hostsFile, backups, now, includeFile, doc, base, proxyCfg, cmd, desired,
                   includeRes, hostsRes, rbErrs, fwdErr, pre, lastOk, ncmds, hosts0, tmp,
                   reloadOut, args, loaded>>

NextReady == \E f \in Faults({"read"}, Kinds) : ReadyCheck(f)

SpecReady == InitReady /\ [][NextReady]_vars

\* EnsureBaseReady has returned, and its read of the parent did not fail.
Checked == pc = "checked" /\ \A e \in retErr : e.op # "read"

\* The fields of each line of the parent configuration.
LineFields(file) ==
    LET lines == LinesOf(file)
    IN {Fields(lines[k]) : k \in 1..Len(lines)}

\* The parent has an import directive (a line whose first field is
\* `import`) whose argument is target, bare or in double quotes.
Imports(file, target) ==
    \E fs \in LineFields(file) :
        /\ Len(fs) >= 2
        /\ fs[1] = <<"import">>
        /\ fs[2] \in {<<target>>, <<"\"", target, "\"">>}

\* The parent holds the text `import`, one space and target, bare or in
\* double quotes, anywhere.
HoldsImportText(file, target) ==
    \/ Contains(file.data, <<"import", " ", target>>)
    \/ Contains(file.data, <<"import", " ", "\"", target, "\"">>)

DefinedIn(file, name) ==
    \E k \in 1..Len(LinesOf(file)) :
        LET t == TrimSpace(LinesOf(file)[k])
        IN Len(t) >= 2 /\ t[1] = name /\ t[2] \in {" ", "{"}

\* C25 (as claimed): EnsureBaseReady returns an error naming the fragment
\* path whenever the parent holds no import of the fragment path, also for
\* an empty host list; it returns nil when the parent imports the fragment
\* at its absolute path and defines none of the desired hostnames; and it
\* writes no file.
C25_ImportRequired ==
    /\ (Checked /\ ~Imports(base, IncludePath)) =>
           (retErr # Nil /\ \A e \in retErr : e.op \in {"import-missing", "import-tilde"})
    /\ (Checked /\ Imports(base, IncludePath)
            /\ \A i \in 1..Len(desired) : ~DefinedIn(base, desired[i].Name)) =>
           retErr = Nil
    /\ pc = "checked" => (NoMutation /\ Snapshot = pre)

\* ------------------------------------------------------------------- C26
\* The parent has an import directive of the absolute fragment path and none
\* of its ~ form.
ValidImport(file) ==
    Imports(file, IncludePath) /\ ~Imports(file, altHomeToken(IncludePath))

\* The desired hostnames that the parent defines.
Conflicting(file, hosts) ==
    {n \in {hosts[i].Name : i \in 1..Len(hosts)} : DefinedIn(file, n)}

BlockLines(h) ==
    IF h.TLS
    THEN <<<<h.Name, " {">>, <<"  tls internal">>, <<>>,
           <<"  reverse_proxy ", h.Upstream>>, <<"}">>>>
    ELSE <<<<h.Name, " {">>, <<"  reverse_proxy ", h.Upstream>>, <<"}">>>>

\* The lines of the blocks of hosts in order, one empty line between two
\* blocks.
RECURSIVE RenderedLines(_)
RenderedLines(hosts) ==
    IF Len(hosts) = 1 THEN BlockLines(hosts[1])
    ELSE BlockLines(hosts[1]) \o <<<<>>>> \o RenderedLines(Tail(hosts))

\* C27: the fragment UpdateInclude has written is GenerateInclude of the
\* host list: nothing for the empty list; otherwise one block per host in
\* list order (`<name> {`, for TLS hosts `  tls internal` and an empty
\* line, `  reverse_proxy <upstream>`, `}`), one empty line between blocks
\* and exactly one newline at the end; and rendering the list of the last
\* successful apply again gives the same bytes, so nothing is rewritten.
C27_FragmentRendering ==
    pc = "hosts" =>
        LET out == GenerateInclude(desired)
        IN /\ includeFile = FileOf(out)
           /\ Len(desired) = 0 => out = <<>>
           /\ Len(desired) > 0 =>
                  /\ Split(out) = RenderedLines(desired) \o <<<<>>>>
                  /\ out[Len(out)] = NL /\ out[Len(out) - 1] # NL
           /\ (lastOk.ok /\ lastOk.hosts = desired) => ~includeRes.Changed

C27_Witness ==
    /\ pc = "hosts"
    /\ Len(desired) = 2 /\ desired[1].TLS /\ ~desired[2].TLS
    /\ includeRes.Changed
    /\ includeFile.data = GenerateInclude(desired)

\* ------------------------------------------------------------------ C28
\* A host list in canonical form: names normalized, without dots, unique,
\* upstreams local, names strictly ascending.
Canonical(hosts) ==
    /\ \A i \in 1..Len(hosts) :
           /\ NormalizeHostName(hosts[i].Name) = hosts[i].Name
           /\ hosts[i].Name \notin DottedNames
           /\ hosts[i].Upstream \in LocalUpstreams
    /\ \A i, j \in 1..Len(hosts) : i < j => StrLess(hosts[i].Name, hosts[j].Name)

\* What ValidateSnapshot requires of a list: after normalization the names
\* are unique and without dots, and the upstreams are local.
Acceptable(hosts) ==
    /\ \A i \in 1..Len(hosts) :
           /\ NormalizeHostName(hosts[i].Name) \notin DottedNames \cup {""}
           /\ hosts[i].Upstream \in LocalUpstreams
    /\ \A i, j \in 1..Len(hosts) :
           i # j => NormalizeHostName(hosts[i].Name) # NormalizeHostName(hosts[j].Name)

HandedToApplyState == pc = "ensure" \/ InLog(Call("EnsureBaseReady"))

\* C28: a host list that ValidateSnapshot accepted has unique, normalized,
\* dot-free names with local upstreams and is sorted ascending by name; so
\* every list that add, remove and apply hand to applyState and to Save, and
\* every list Save writes, is canonical, and a list that is not canonical
\* after normalization is rejected before applyState.
C28_CanonicalDesired ==
    /\ HandedToApplyState => Canonical(desired)
    /\ InLog(Call("Save")) => Canonical(desired)
    /\ InLog(<<"write", "doc">>) => (doc = desired /\ Canonical(doc))
    /\ (cmd # "none" /\ ~Acceptable(pre.doc)) =>
           (cmd = "load" /\ pc = "done" /\ retErr = ValidationError
            /\ ~HandedToApplyState)

C28_Witness ==
    /\ cmd = "add"
    /\ pre.doc = <<HostB, HostA>>
    /\ InLog(<<"write", "doc">>)
    /\ Len(doc) = 2
    /\ doc[1].Name = "a"
    /\ doc[2].Name = "b"
\* ------------------------------------------------------------------ C29
IsFlagArg(a) == a \in {<<"--tls">>, <<"--no-tls">>}
\* The flags given anywhere in the running command, and its host specs.
GivenFlags == {args[i][1] : i \in {k \in 1..Len(args) : IsFlagArg(args[k])}}
GivenSpecs == {args[i] : i \in {k \in 1..Len(args) : ~IsFlagArg(args[k])}}
NamedHosts == {NormalizeHostName(a[1]) : a \in GivenSpecs}
LoadedHosts ==
    {[pre.doc[i] EXCEPT !.Name = NormalizeHostName(pre.doc[i].Name)] : i \in 1..Len(pre.doc)}
DesiredHosts == {desired[i] : i \in 1..Len(desired)}
WasManaged(n) == \E h \in LoadedHosts : h.Name = n
ExpectedTLS(n) ==
    IF "--no-tls" \in GivenFlags THEN FALSE
    ELSE IF "--tls" \in GivenFlags THEN TRUE
    ELSE IF WasManaged(n) THEN (CHOOSE h \in LoadedHosts : h.Name = n).TLS
    ELSE TRUE
AddRunning == cmd = "add" /\ pc # "idle"
AddRefused == GivenFlags = {"--tls", "--no-tls"} \/ GivenSpecs = {}

\* C29: an add command given both --tls and --no-tls, or no host spec, fails
\* before anything is applied or saved; any other add command upserts the
\* named hosts by normalized name and leaves the other loaded hosts as they
\* were: a named host gets the forced flag when --tls or --no-tls is given,
\* else the TLS flag it had when it was managed before, else TLS enabled.
C29_AddSemantics ==
    AddRunning =>
        IF AddRefused
        THEN /\ pc = "done" /\ retErr # Nil
             /\ NoMutation /\ ~HandedToApplyState /\ doc = pre.doc
        ELSE /\ ~InLog(Err("handleAdd"))
             /\ \A h \in LoadedHosts : h.Name \notin NamedHosts => h \in DesiredHosts
             /\ \A h \in DesiredHosts : h.Name \in NamedHosts \/ h \in LoadedHosts
             /\ \A n \in NamedHosts :
                    \E h \in DesiredHosts : h.Name = n /\ h.TLS = ExpectedTLS(n)
\* ------------------------------------------------------------------ C30
RemoveRunning == cmd = "remove" /\ pc # "idle" /\ Len(args) > 0
NamedForRemoval == {NormalizeHostName(args[i][1]) : i \in 1..Len(args)}
ApplyStateCalls ==
    {Call("EnsureBaseReady"), Call("UpdateInclude"), Call("Hosts.Apply"), Call("Reload"),
     Call("Save")}

\* C30: a remove command that names hosts leaves exactly the loaded hosts
\* that were not named; every named host that is not managed is warned about
\* and the command goes on to applyState when some named host is managed;
\* when none is managed it returns success without a readiness check, a file
\* write, a reload or a save.
C30_RemoveSemantics ==
    RemoveRunning =>
        /\ DesiredHosts = {h \in LoadedHosts : h.Name \notin NamedForRemoval}
        /\ \A n \in NamedForRemoval : InLog(<<"warn", n>>) <=> ~WasManaged(n)
        /\ (\E n \in NamedForRemoval : WasManaged(n)) => HandedToApplyState
        /\ (\A n \in NamedForRemoval : ~WasManaged(n)) =>
               /\ pc = "done" /\ retErr = Nil
               /\ NoMutation
               /\ \A c \in ApplyStateCalls : ~InLog(c)
               /\ Snapshot = pre

C30_Witness ==
    /\ RemoveRunning
    /\ pre.doc = <<HostB, HostA>>
    /\ NamedForRemoval = {"b", "c"}
    /\ InLog(<<"warn", "c">>)
    /\ InLog(<<"write", "doc">>)
    /\ doc = <<HostA>>
\* ------------------------------------- SpecConfig: the document's loader
\* Loader.Save and Loader.Load called directly on one document path.  Here
\* doc is the document file (its data a JSON object, a function from the keys
\* present to their values), desired is the caller's snapshot after the last
\* successful Save, lastOk.hosts the host list the caller passed to it, args
\* the argument of the last call and loaded what the last Load returned.
defaultSnapshot == MkSnapshot(1, <<>>, BasePath, IncludePath)

\* The `tls,omitempty` tag ignored on the way out: the key is never written.
MarshalHostOmitsTls(h) == [name |-> h.Name, upstream |-> h.Upstream]

\* json.Marshal of a Host: `tls` is omitted when false (state.go:22).
MarshalHost(h) ==
    IF h.TLS THEN [name |-> h.Name, upstream |-> h.Upstream, tls |-> TRUE]
    ELSE [name |-> h.Name, upstream |-> h.Upstream]

\* json.MarshalIndent of a Snapshot (state.go:27-30).
MarshalIndent(snapshot) ==
    [version |-> snapshot.Version,
     hosts |-> [i \in 1..Len(snapshot.Hosts) |-> MarshalHost(snapshot.Hosts[i])],
     base_caddyfile |-> snapshot.BaseCaddyfile,
     include_caddyfile |-> snapshot.IncludeCaddyfile]

\* A key that is missing leaves the field at its zero value.
Field(object, key, zero) == IF key \in DOMAIN object THEN object[key] ELSE zero

\* json.Unmarshal into a Snapshot.
Unmarshal(object) ==
    LET hosts == Field(object, "hosts", <<>>)
    IN MkSnapshot(Field(object, "version", 0),
                  [i \in 1..Len(hosts) |->
                      [Name |-> Field(hosts[i], "name", ""),
                       Upstream |-> Field(hosts[i], "upstream", ""),
                       TLS |-> Field(hosts[i], "tls", FALSE)]],
                  Field(object, "base_caddyfile", ""),
                  Field(object, "include_caddyfile", ""))

\* Bytes that are not JSON.
NotJson == [garbage |-> TRUE]

\* ValidateSnapshot, lines 40-48 and then the hosts: the error and the
\* snapshot whose host slice the caller shares.
ValidateSnapshotOf(snapshot) ==
    IF snapshot.Version # 1 \/ snapshot.BaseCaddyfile = ""
       \/ snapshot.IncludeCaddyfile = ""
    THEN [err |-> ValidationError, snapshot |-> snapshot]
    ELSE LET v == ValidateSnapshot(snapshot.Hosts)
         IN [err |-> v.err, snapshot |-> [snapshot EXCEPT !.Hosts = v.hosts]]

\* filesystem.ExpandUser with the home directory /home/u, on the paths of
\* the model.
ExpandUser(path) ==
    CASE path = "~/Caddyfile" -> [err |-> Nil, path |-> "/home/u/Caddyfile"]
      [] path = "~bob/Caddyfile" ->
             [err |-> {Unwrapped("expand", path, "config")}, path |-> ""]
      [] OTHER -> [err |-> Nil, path |-> path]

\* Loader.readSnapshot; notexist stands for fs.ErrNotExist.
readSnapshot(file) ==
    IF ~file.exists
    THEN [err |-> {Unwrapped("read", "doc", "notexist")}, snapshot |-> NoSnapshot]
    ELSE IF file.data = NotJson
    THEN [err |-> {Unwrapped("unmarshal", "doc", "config")}, snapshot |-> NoSnapshot]
    ELSE LET u == Unmarshal(file.data)
         IN [err |-> Nil,
             snapshot |->
                 [u EXCEPT !.BaseCaddyfile =
                               IF @ = "" THEN defaultSnapshot.BaseCaddyfile ELSE @,
                           !.IncludeCaddyfile =
                               IF @ = "" THEN defaultSnapshot.IncludeCaddyfile ELSE @]]

\* Loader.Load, lines 49-78.
Load(file, opts) ==
    LET r == readSnapshot(file)
        missing == \E e \in r.err : e.kind = "notexist"
        read == IF missing THEN defaultSnapshot ELSE r.snapshot
        b == ExpandUser(opts.BaseCaddyfileOverride)
        i == ExpandUser(opts.IncludeCaddyfileOverride)
        withBase == IF opts.BaseCaddyfileOverride # ""
                    THEN [read EXCEPT !.BaseCaddyfile = b.path] ELSE read
        withBoth == IF opts.IncludeCaddyfileOverride # ""
                    THEN [withBase EXCEPT !.IncludeCaddyfile = i.path] ELSE withBase
        v == ValidateSnapshotOf(withBoth)
    IN IF r.err # Nil /\ ~missing THEN [Snapshot |-> NoSnapshot, err |-> r.err]
       ELSE IF opts.BaseCaddyfileOverride # "" /\ b.err # Nil
       THEN [Snapshot |-> NoSnapshot, err |-> b.err]
       ELSE IF opts.IncludeCaddyfileOverride # "" /\ i.err # Nil
       THEN [Snapshot |-> NoSnapshot, err |-> i.err]
       ELSE IF v.err # Nil THEN [Snapshot |-> NoSnapshot, err |-> v.err]
       ELSE [Snapshot |-> v.snapshot, err |-> Nil]

\* Loader.Save, lines 86-100, without filesystem failures: the error, the
\* document file and the caller's snapshot after the call.
SaveSnapshot(file, snapshot) ==
    LET v == ValidateSnapshotOf(snapshot)
    IN IF v.err # Nil THEN [err |-> v.err, file |-> file, snapshot |-> snapshot]
       ELSE [err |-> Nil, file |-> FileOf(MarshalIndent(v.snapshot)),
             snapshot |-> v.snapshot]

\* The snapshots a caller saves: valid and invalid ones, host lists in and
\* out of canonical form.
SavedSnapshots ==
    {MkSnapshot(v, h, b, i) :
        v \in {1, 2},
        h \in {<<>>, <<HostA>>, <<HostB, HostA>>, <<[HostB EXCEPT !.Name = "A"]>>,
               <<HostDotted>>},
        b \in {"", BasePath, "/etc/caddy/Caddyfile"},
        i \in {IncludePath, "/srv/devhosts.caddy"}}

LoadOptions ==
    [BaseCaddyfileOverride : {"", "/etc/caddy/Caddyfile", "~/Caddyfile", "~bob/Caddyfile"},
     IncludeCaddyfileOverride : {"", "/srv/devhosts.caddy"}]

\* Documents found on disk before the first call: none, garbage, a
\* historical one without paths, one without a version, a complete one.
ConfigDocs ==
    {Absent, FileOf(NotJson),
     FileOf([version |-> 1, hosts |-> <<[name |-> "a", upstream |-> "http://localhost:8000"]>>]),
     FileOf([hosts |-> <<>>, base_caddyfile |-> "/base", include_caddyfile |-> "/include"]),
     FileOf([version |-> 1, hosts |-> <<>>, base_caddyfile |-> "/base",
             include_caddyfile |-> "/include"])}

InitConfig ==
    /\ hostsFile = Absent
    /\ hosts0 = hostsFile
    /\ tmp = Absent
    /\ reloadOut = NoOutput
    /\ args = <<>>
    /\ loaded = NoLoaded
    /\ backups = NoBackups
    /\ now = 1
    /\ includeFile = Absent
    /\ doc \in ConfigDocs
    /\ base = Absent
    /\ proxyCfg = <<>>
    /\ pc = "idle"
    /\ cmd = "none"
    /\ desired = NoSnapshot
    /\ includeRes = EmptyUpdateResult
    /\ hostsRes = EmptyApplyResult
    /\ retErr = Nil
    /\ rbErrs = Nil
    /\ fwdErr = Nil
    /\ oplog = <<>>
    /\ pre = Snapshot
    /\ lastOk = NoLast
    /\ ncmds = 0

ConfigFrame ==
    UNCHANGED <<hostsFile, backups, now, includeFile, base, proxyCfg, pc, includeRes,
                hostsRes, rbErrs, fwdErr, ncmds, hosts0, tmp, reloadOut>>

ConfigSave(snapshot) ==
    LET r == SaveSnapshot(doc, snapshot)
    IN /\ cmd' = "Save"
       /\ args' = snapshot
       /\ pre' = Snapshot
       /\ doc' = r.file
       /\ retErr' = r.err
       /\ desired' = IF r.err = Nil THEN r.snapshot ELSE desired
       /\ lastOk' = IF r.err = Nil THEN [ok |-> TRUE, hosts |-> snapshot.Hosts] ELSE lastOk
       /\ loaded' = NoLoaded
       /\ oplog' = IF r.err = Nil THEN <<<<"mkdir", "doc.dir">>, <<"write", "doc">>>>
                   ELSE <<>>
       /\ ConfigFrame

ConfigLoad(opts) ==
    LET r == Load(doc, opts)
    IN /\ cmd' = "Load"
       /\ args' = opts
       /\ pre' = Snapshot
       /\ loaded' = r
       /\ retErr' = r.err
       /\ oplog' = <<>>
       /\ UNCHANGED <<doc, desired, lastOk>>
       /\ ConfigFrame

NextConfig ==
    \/ \E snapshot \in SavedSnapshots : ConfigSave(snapshot)
    \/ \E opts \in LoadOptions : ConfigLoad(opts)

SpecConfig == InitConfig /\ [][NextConfig]_vars

\* ------------------------------------------------------------------ C31
NoOverrides == [BaseCaddyfileOverride |-> "", IncludeCaddyfileOverride |-> ""]
HostSetOf(hosts) ==
    {[hosts[i] EXCEPT !.Name = NormalizeHostName(hosts[i].Name)] : i \in 1..Len(hosts)}
LoadReturned == cmd = "Load" /\ retErr = Nil
ExpectedPath(override, stored) ==
    IF override = "" THEN stored
    ELSE IF override = "~/Caddyfile" THEN "/home/u/Caddyfile"
    ELSE override

ApplyStateStep ==
    \/ \E f \in Faults({"read"}, Kinds) : Ensure(f)
    \/ \E f \in Faults(UpdateFaultPoints, Kinds) : Update(f)
    \/ \E f \in Faults(ApplyFaultPoints, Kinds) : HostsStep(f)
    \/ \E f \in Faults(RestoreIncludeFaultPoints, Kinds) : HostsFailed(f)
    \/ \E ok \in BOOLEAN, out \in ReloadOutputs : Reload(ok, out)
    \/ \E f \in Faults(RestoreIncludeFaultPoints, Kinds) : ReloadFailedInclude(f)
    \/ \E f \in Faults(RestoreFaultPoints, Kinds) : ReloadFailedHosts(f)

\* One apply command from any initial state, its steps taken one by one.
NextLive == LoadFails \/ StartApply \/ ApplyStateStep


\* The command starts with a valid or an invalid document, a parent that
\* is ready or not, and a resolution file that is absent or unmanaged.
InitLive ==
    /\ Init
    /\ doc \in {<<HostA>>, <<HostDotted>>}
    /\ base \in {BaseGood, BaseNoImport}
    /\ hostsFile \in {Absent, FileOf(<<"x", NL>>)}

SpecLive == InitLive /\ [][NextLive]_vars /\ WF_vars(ApplyStateStep)

InApplyState ==
    pc \in {"ensure", "update", "hosts", "hostsFailed", "reload", "reloadFailed1",
            "reloadFailed2"}
ApplyStateReturned ==
    pc \in {"done", "save", "rollback1", "rollback2"} /\ InLog(Call("EnsureBaseReady"))
Completed(step) == InLog(Call(step)) /\ ~InLog(Err(step))
TerminalSuccess ==
    /\ Completed("EnsureBaseReady") /\ Completed("UpdateInclude")
    /\ Completed("Hosts.Apply") /\ Completed("Reload")
    /\ pc = "done" /\ cmd = "apply" => retErr = Nil
TerminalFailure ==
    /\ \E step \in {"EnsureBaseReady", "UpdateInclude", "Hosts.Apply", "Reload"} :
           InLog(Err(step))
    /\ retErr # Nil
    /\ Completed("UpdateInclude") => InLog(Call("RestoreInclude"))
    /\ Completed("Hosts.Apply") => InLog(Call("Hosts.Restore"))

\* C32: when every step returns, an applyState that has begun returns after
\* finitely many steps, and when it has returned either every step up to the
\* reload succeeded, or a step failed, the error is returned and a restore
\* was attempted for every write that had completed.
C32_ApplyTerminates ==
    /\ [](ApplyStateReturned => (TerminalSuccess \/ TerminalFailure))
    /\ (InApplyState ~> ApplyStateReturned)

C32_Witness ==
    /\ ApplyStateReturned
    /\ TerminalFailure
    /\ InLog(Err("Reload"))
    /\ InLog(Call("RestoreInclude"))
    /\ InLog(Call("Hosts.Restore"))

\* ---------------------------------------------------------------------------
\* Manager.Apply next to another writer of the hosts file.  The package takes
\* no lock and never re-reads the file: the content renamed into place is
\* computed from the bytes read at line 60.
\* ---------------------------------------------------------------------------

ExternalLine == <<"y">>

\* Apply has read the file (line 60) and has not yet renamed the temporary
\* file over it (line 103).
BetweenReadAndRename ==
    /\ cmd = "Apply"
    /\ pc \in {"apply.backup", "apply.backup.writing", "apply.mkdir",
               "apply.temp", "apply.temp.writing", "apply.rename"}

\* Another actor appends a line of its own to the hosts file, once per call.
ExternalEdit ==
    /\ BetweenReadAndRename
    /\ ~InLog(<<"external", "hosts">>)
    /\ hostsFile' = FileOf((IF hostsFile.exists THEN hostsFile.data ELSE <<>>)
                           \o ExternalLine \o <<NL>>)
    /\ CrashLog(<< <<"external", "hosts">> >>)
    /\ UNCHANGED <<pc, retErr, hostsRes, includeRes, includeFile, backups, tmp>>
    /\ StepFrame

NextRace == NextCrash \/ ExternalEdit

SpecRace == InitCrash /\ [][NextRace]_vars

\* The external line is in the hosts file, outside every managed region.
ExternalLineKept ==
    \E i \in 1..Len(LinesOf(hostsFile)) :
        /\ LinesOf(hostsFile)[i] = ExternalLine
        /\ ~Managed(LinesOf(hostsFile), i)

\* C33: when another actor has changed the hosts file outside the managed
\* region while Manager.Apply was running, between the read and the rename
\* included, the change is in the file after Apply has returned.
C33_ExternalEditsPreserved ==
    (/\ cmd = "Apply"
     /\ pc = "ready"
     /\ InLog(<<"external", "hosts">>)
     /\ ~Corrupted(Split(CrashOriginal)))
        => ExternalLineKept

\* ------------------------------------------------------------------- C34
\* Manager.Apply has returned the error of its rename (line 108).
RenameHasFailed ==
    /\ cmd = "Apply"
    /\ pc = "ready"
    /\ \E e \in retErr : e.op = "replace" /\ e.path = "hosts"

\* The overwrite of line 106 was called; it failed when its error is logged.
OverwriteCalled == InLog(<<"write", "hosts">>) \/ InLog(Err("rewrite"))
OverwriteFailed == InLog(Err("rewrite"))

\* What lines 104-108 do apart from the bytes they leave in the target.
RenameFailureHandled ==
    /\ tmp = Absent
    /\ InLog(<<"remove", "hosts.tmp">>)
    /\ ~InLog(<<"rename", "hosts">>)
    /\ OverwriteCalled <=> pre.hosts.exists
    /\ hostsRes = EmptyApplyResult
    /\ includeFile = pre.include

\* C34 (as claimed): when the rename fails the temporary file is removed, the
\* target is overwritten with the original bytes exactly when a backup was
\* taken, the error is returned with an empty result, and the hosts file
\* ends with its bytes of before the apply.
C34_AsClaimed ==
    RenameHasFailed => (RenameFailureHandled /\ hostsFile = pre.hosts)

\* C34 (restricted): as claimed, the hosts file ending with its bytes of
\* before the apply in the runs where the overwrite, whose error Apply
\* discards, has not failed.
C34_RenameFailureCompensated ==
    RenameHasFailed =>
        /\ RenameFailureHandled
        /\ ~OverwriteFailed => hostsFile = pre.hosts

C34_Witness ==
    /\ RenameHasFailed
    /\ pre.hosts.exists
    /\ pre.hosts.data # <<>>
    /\ InLog(<<"write", "hosts">>)
    /\ ~OverwriteFailed
    /\ hostsFile = pre.hosts
    /\ backups[CrashBackupPath] = pre.hosts

\* ------------------------------------------------------------------- C35
\* C35: stripManagedBlock keeps an end marker that no begin marker opens: the
\* marker is in the output where it was among the lines outside the regions,
\* and the lines after it are kept as lines outside the regions (trailing
\* blank lines apart).  A file whose regions are malformed comes back whole.
\* Manager.Apply writes the output at the head of the file.
C35_UnmatchedEndInPlace ==
    (Applied /\ pre.hosts.exists /\ HasUnmatchedEnd(LinesOf(pre.hosts))) =>
        LET lines == LinesOf(pre.hosts)
            stripped == stripManagedBlock(pre.hosts.data)
        IN /\ IF Corrupted(lines)
              THEN stripped.text = pre.hosts.data
              ELSE DropTrailingBlank(Split(stripped.text))
                       = DropTrailingBlank(Unmanaged(lines))
           /\ IsPrefix(stripped.text, hostsFile.data)

\* A line, an unmatched end marker and another line, in this order.
AroundUnmatchedEnd(lines) ==
    \E i, j, k \in 1..Len(lines) :
        /\ i < j /\ j < k
        /\ lines[i] = <<"x">> /\ ~Managed(lines, i)
        /\ lines[j] = blockEnd /\ ~Managed(lines, j)
        /\ lines[k] = <<"x">> /\ ~Managed(lines, k)

C35_Witness ==
    /\ Applied
    /\ pre.hosts.exists
    /\ AroundUnmatchedEnd(LinesOf(pre.hosts))
    /\ Count(LinesOf(pre.hosts), blockStart) = 1
    /\ ~Corrupted(LinesOf(pre.hosts))
    /\ extractHostnames(desired) # <<>>
    /\ hostsRes.Changed
    /\ AroundUnmatchedEnd(LinesOf(hostsFile))

\* ------------------------------------------------------------------- C36
\* C36: a backup that Manager.Apply has written is never deleted and never
\* overwritten with other content by a later Apply or Restore, two applies
\* within the same second of the clock included.
C36_BackupsIntact ==
    [][\A t \in 1..MaxClock : backups[t].exists => backups'[t] = backups[t]]_vars

\* ------------------------------------------------------------------- C37
\* The proxy runs the fragment on disk, and the fragment, the managed region
\* and the document all describe the host list hosts.
AgreeOn(hosts) ==
    /\ proxyCfg = CurrentBytes(includeFile)
    /\ CurrentBytes(includeFile) = GenerateInclude(hosts)
    /\ RegionLists(hostsFile, hosts)
    /\ HostSetOf(doc) = HostSetOf(hosts)

\* The command before this one succeeded with the list lastOk.hosts (the
\* proxy accepted its fragment), and the three files described that list
\* when this command began.
AgreedBefore ==
    /\ lastOk.ok
    /\ CurrentBytes(pre.include) = GenerateInclude(lastOk.hosts)
    /\ RegionLists(pre.hosts, lastOk.hosts)
    /\ HostSetOf(pre.doc) = HostSetOf(lastOk.hosts)

CommandReturned == pc = "done" /\ cmd \in {"add", "remove", "apply"}

\* C37: when an add, remove or apply command returns, with success or with any
\* failure (the restores returning nil, a failed reload leaving the proxy on
\* its previous configuration), the proxy runs the fragment that is on disk,
\* and the fragment, the managed region and the document describe one host
\* list: the new list or the list of before the command.
C37_ProxyAndFilesAgree ==
    (CommandReturned /\ rbErrs = Nil /\ AgreedBefore) =>
        (AgreeOn(desired) \/ AgreeOn(lastOk.hosts))

\* ------------------------------------------------------------------- C38
\* The call named wrote, renamed or removed something: a filesystem entry
\* follows the call in the log before any other call.
MutationBy(name) ==
    \E i, j \in 1..Len(oplog) :
        /\ i < j
        /\ oplog[i] = Call(name)
        /\ oplog[j][1] \in {"write", "rename", "remove"}
        /\ \A k \in (i + 1)..(j - 1) : oplog[k][1] # "call"

\* C38: when applyState or rollbackOutcome unwinds, a resource whose write
\* result says Changed = false is not written, renamed or removed by the
\* rollback.
C38_RollbackOnlyWhatChanged ==
    /\ ~includeRes.Changed => ~MutationBy("RestoreInclude")
    /\ ~hostsRes.Changed => ~MutationBy("Hosts.Restore")
====
